---- MODULE Spec2Model ----
(***************************************************************************)
(* Model of the security_cam capture service (src/security_cam).           *)
(*                                                                         *)
(* Conventions                                                             *)
(*  - time.time() is the variable clock, in whole seconds; every place the *)
(*    source reads the time again is a nondeterministic delay.             *)
(*  - floats are fixed-point integers: exposure EMAs in units of           *)
(*    1/EmaScale, enhancement alpha/beta in units of 1/EnhScale, EV bias   *)
(*    in tenths, analogue gain in quarters.                                *)
(*  - a frame is a row of FrameLen gray pixels (B = G = R).                *)
(*  - an attribute is the source's name without its leading underscore.    *)
(***************************************************************************)
EXTENDS Integers, Sequences, FiniteSets, TLC

(* ------------------------------- state --------------------------------- *)
VARIABLES
    pc,          \* "run" while _run loops, "crashed" once an exception left it
    clock,       \* time.time()
    cfg,         \* the Config values that vary between deployments
    started,     \* local `started` of _run
    frame_idx,   \* local `frame_idx` of _run
    self,        \* attributes of SecurityCamService
    state,       \* ServiceState
    camera,      \* the driver behind BaseCamera
    detector,    \* MotionDetector
    obs          \* what the latest loop iteration or call did

(* ------------------------------ bounds --------------------------------- *)
FrameLen == 2
MaxDelay == 3
MaxGap == 1
Horizon == 6
MaxCalls == 3
MaxSteps == 2
MaxSaves == 3
MaxTicks == 4

(* ------------------- Config (src/security_cam/config.py) --------------- *)
CAPTURE_FPS == 1
ADAPT_DETECT_STRIDE_SCALE == 2
MOTION_DELTA_THRESH == 50
MOTION_DILATE_ITER == 2
MOTION_ADJUST_PAUSE_SEC == 3
SAVE_INTERVAL_SEC == 1
\* time.sleep(3.0) after a failed camera.start() (service.py 159)
START_RETRY_SEC == 3
EXP_BRIGHT_MEAN == 200
EXP_DARK_MEAN == 40
EXP_DARK_MEAN_EXIT == 50
\* EXP_HIGH_CLIP_FRAC = EXP_LOW_CLIP_FRAC = 0.05 = 1 / CLIP_FRAC_DEN
EXP_HIGH_CLIP_FRAC_DEN == 20
EXP_LOW_CLIP_FRAC_DEN == 20
\* EXP_EMA_ALPHA = 0.35 = 7 / 20
EXP_EMA_ALPHA_NUM == 7
EXP_EMA_ALPHA_DEN == 20
\* enhancement presets in 1/EnhScale; ENHANCE_BLEND_ALPHA is a fraction
\* ENHANCE_BLEND_NUM / ENHANCE_BLEND_DEN, 0.3 = 3 / 10 by default
ENHANCE_UNDER_ALPHA == 2500
ENHANCE_UNDER_BETA == 20000
ENHANCE_OVER_ALPHA == 850
ENHANCE_OVER_BETA == -10000
ENHANCE_BLEND_DEN == 10
\* ENHANCE_HOLD_SEC = 1.5, rounded up to whole seconds of the clock
ENHANCE_HOLD_SEC == 2
\* EV bias in tenths of an EV
AE_EV_STEP == 2
AE_EV_RETURN_STEP == 1
AE_EV_UPDATE_INTERVAL_SEC == 1
\* analogue gain in quarters
GAIN_STEP == 2
GAIN_RETURN_STEP == 1
GAIN_UPDATE_INTERVAL_SEC == 1
\* shutter in microseconds
SHUTTER_MIN_US == 5000
SHUTTER_STEP_US == 20000
SHUTTER_RETURN_STEP_US == 10000
SHUTTER_BASE_US == 10000
SHUTTER_UPDATE_INTERVAL_SEC == 1

(* ---- the Config values that deployments override (SC_* environment) --- *)
\* the defaults of config.py; MOTION_MIN_PIXELS = 250 of 320 x 240 pixels is
\* scaled to a row of pixels
DefaultConfig ==
    [pause |-> MOTION_ADJUST_PAUSE_SEC, adaptive |-> TRUE, shutter_enable |-> FALSE,
     period |-> 180, ev_min |-> -20, ev_max |-> 20,
     gain_min |-> 4, gain_max |-> 48, shutter_max |-> 930000,
     stride |-> 5, min_pixels |-> 2, blend_num |-> 3,
     save_annotated |-> TRUE, save_raw |-> TRUE, cooldown |-> 10]
\* a deployment with narrow control ranges and a short adjustment period
TightConfig ==
    [DefaultConfig EXCEPT !.shutter_enable = TRUE, !.period = 2,
                          !.ev_min = -3, !.ev_max = 3,
                          !.gain_max = 5, !.shutter_max = 40000]
MOTION_MIN_PIXELS == cfg.min_pixels
ENHANCE_BLEND_NUM == cfg.blend_num
DETECT_EVERY_N_FRAMES == cfg.stride
MOTION_ADJUST_PERIOD_SEC == cfg.period
ALERT_COOLDOWN_SEC == cfg.cooldown
AE_EV_MIN == cfg.ev_min
AE_EV_MAX == cfg.ev_max
GAIN_MIN == cfg.gain_min
GAIN_MAX == cfg.gain_max
SHUTTER_MAX_US == cfg.shutter_max

(* ------------------------- fixed-point scales -------------------------- *)
\* time of the pacing is counted in tenths of a second
PaceScale == 10
EmaScale == FrameLen * EXP_EMA_ALPHA_DEN * EXP_EMA_ALPHA_DEN * EXP_EMA_ALPHA_DEN
EnhScale == 10 * 10 * 10
\* the literal 1.0 the gain returns to (service.py 474-477), in quarters
GAIN_BASE == 4

(* time.time() at construction: seconds since the epoch, far beyond any   *)
(* configured period                                                       *)
EpochStart == DefaultConfig.period + DefaultConfig.period

(* ------------------------------ frames --------------------------------- *)
\* Python None where a frame is expected: the empty row
None == << >>
Frames == [1..FrameLen -> {0, 30, 45, 55, 120, 255}]
\* the scenes the worker loop is exercised with: black, mid-gray, white, and
\* one that is white on the left edge and black elsewhere
LoopFrames ==
    {[i \in 1..FrameLen |-> v] : v \in {0, 120, 255}}
        \cup {[i \in 1..FrameLen |-> IF i = 1 THEN 255 ELSE 0]}
\* time that passes between two readings of the clock inside one tick:
\* none, or a slow step
Delays == {0, MaxDelay}

Abs(x) == IF x < 0 THEN -x ELSE x
Min(a, b) == IF a < b THEN a ELSE b
Max(a, b) == IF a > b THEN a ELSE b

RECURSIVE SumTo(_, _)
SumTo(f, n) == IF n = 0 THEN 0 ELSE f[n] + SumTo(f, n - 1)
\* number of indices of a pixel row
Len1(f) == Cardinality(DOMAIN f)

(* -------- exposure metrics (service.py 289-298), in 1/EmaScale --------- *)
\* gray.mean()
FrameMean(f) == (SumTo(f, Len1(f)) * EmaScale) \div Len1(f)
LowClip(f) ==
    LET \* (gray <= 5).mean()
        IsLow(p) == p <= 5
    IN
    (Cardinality({i \in DOMAIN f : IsLow(f[i])}) * EmaScale) \div Len1(f)
HighClip(f) ==
    LET \* (gray >= 250).mean()
        IsHigh(p) == p >= 250
    IN
    (Cardinality({i \in DOMAIN f : IsHigh(f[i])}) * EmaScale) \div Len1(f)
\* variant: no smoothing, the sample replaces the average
EmaNoSmoothing(old, sample) == sample
\* ema = (1 - alpha) * ema + alpha * sample
Ema(old, sample) ==
    ((EXP_EMA_ALPHA_DEN - EXP_EMA_ALPHA_NUM) * old + EXP_EMA_ALPHA_NUM * sample)
        \div EXP_EMA_ALPHA_DEN

(* ---------- classification with hysteresis (service.py 300-312) -------- *)
LowClipped(low) == low * EXP_LOW_CLIP_FRAC_DEN > EmaScale
\* variant: the enter threshold is used whatever the previous state
UnderCondNoHysteresis(prev_state, mean, low) ==
    LowClipped(low) \/ mean < EXP_DARK_MEAN * EmaScale
UnderCond(prev_state, mean, low) ==
    IF prev_state = "under"
    THEN LowClipped(low) \/ mean < EXP_DARK_MEAN_EXIT * EmaScale
    ELSE LowClipped(low) \/ mean < EXP_DARK_MEAN * EmaScale
OverCond(mean, high) ==
    LET HighClipped(h) == h * EXP_HIGH_CLIP_FRAC_DEN > EmaScale
    IN
    HighClipped(high) \/ mean > EXP_BRIGHT_MEAN * EmaScale
\* variant: under is tested before over
ClassifyUnderFirst(prev_state, mean, low, high) ==
    IF UnderCond(prev_state, mean, low) THEN "under"
    ELSE IF OverCond(mean, high) THEN "over"
    ELSE "normal"
Classify(prev_state, mean, low, high) ==
    IF OverCond(mean, high) THEN "over"
    ELSE IF UnderCond(prev_state, mean, low) THEN "under"
    ELSE "normal"

(* ------------- enhancement target and blend (service.py 327-346) ------- *)
ENHANCE_ON_UNDER == TRUE
ENHANCE_ON_OVER == TRUE
\* variant: the blend steps twice the whole distance
BlendOvershoot(cur, tgt) ==
    cur + 2 * (tgt - cur)
\* current += blend * (target - current)
Blend(cur, tgt) ==
    ((ENHANCE_BLEND_DEN - ENHANCE_BLEND_NUM) * cur + ENHANCE_BLEND_NUM * tgt)
        \div ENHANCE_BLEND_DEN
\* variant: Normal snaps to identity whatever the hold deadline
EnhanceTargetNoHold(s, exp_state, now) ==
    IF exp_state = "under" /\ ENHANCE_ON_UNDER
    THEN [alpha |-> ENHANCE_UNDER_ALPHA, beta |-> ENHANCE_UNDER_BETA,
          hold |-> Max(s.enh_hold_until, now + ENHANCE_HOLD_SEC)]
    ELSE IF exp_state = "over" /\ ENHANCE_ON_OVER
    THEN [alpha |-> ENHANCE_OVER_ALPHA, beta |-> ENHANCE_OVER_BETA,
          hold |-> Max(s.enh_hold_until, now + ENHANCE_HOLD_SEC)]
    ELSE [alpha |-> EnhScale, beta |-> 0, hold |-> s.enh_hold_until]
EnhanceTarget(s, exp_state, now) ==
    IF exp_state = "under" /\ ENHANCE_ON_UNDER
    THEN [alpha |-> ENHANCE_UNDER_ALPHA, beta |-> ENHANCE_UNDER_BETA,
          hold |-> Max(s.enh_hold_until, now + ENHANCE_HOLD_SEC)]
    ELSE IF exp_state = "over" /\ ENHANCE_ON_OVER
    THEN [alpha |-> ENHANCE_OVER_ALPHA, beta |-> ENHANCE_OVER_BETA,
          hold |-> Max(s.enh_hold_until, now + ENHANCE_HOLD_SEC)]
    ELSE IF now < s.enh_hold_until
    THEN [alpha |-> s.enh_tgt_alpha, beta |-> s.enh_tgt_beta,
          hold |-> s.enh_hold_until]
    ELSE [alpha |-> EnhScale, beta |-> 0, hold |-> s.enh_hold_until]
EnhanceBlend(s, exp_state, now) ==
    LET t == EnhanceTarget(s, exp_state, now)
    IN  [s EXCEPT !.enh_hold_until = t.hold,
                  !.enh_tgt_alpha = t.alpha,
                  !.enh_tgt_beta = t.beta,
                  !.enh_alpha = Blend(s.enh_alpha, t.alpha),
                  !.enh_beta = Blend(s.enh_beta, t.beta)]

(* ------------------- camera driver (camera.py 48-84, 184-257) ---------- *)
\* supports_ev / supports_gain / supports_shutter: only Picamera2
SupportsEv(cam) == cam.kind = "picamera2"
SupportsGain(cam) == cam.kind = "picamera2"
SupportsShutter(cam) == cam.kind = "picamera2"
\* hasattr(camera, "set_shutter"): BaseCamera does not define it
HasSetShutter(cam) == cam.kind = "picamera2"
\* set_ev: AeEnable stays on; ok is the driver's answer
CamSetEv(cam, v, ok) ==
    IF cam.kind = "picamera2" /\ ok THEN [cam EXCEPT !.ae = TRUE, !.ev = v] ELSE cam
CamSetGain(cam, v, ok) ==
    IF cam.kind = "picamera2" /\ ok THEN [cam EXCEPT !.gain = v] ELSE cam
\* set_shutter: switches AE off
CamSetShutter(cam, v, ok) ==
    IF cam.kind = "picamera2" /\ ok THEN [cam EXCEPT !.ae = FALSE, !.shutter = v] ELSE cam
CamSetAutoExposure(cam, ok) ==
    IF cam.kind = "picamera2" /\ ok THEN [cam EXCEPT !.ae = TRUE] ELSE cam
\* the boolean a set_X call returns
CamApplied(cam, ok) == cam.kind = "picamera2" /\ ok

(* ---- reseed around a control change (service.py 445-450, 521-526) ----- *)
\* MotionDetector defines no reset(): the call raises AttributeError inside
\* the try block, after the pause deadline was stored and before
\* _seed_at_resume is assigned; the except clause swallows it.
ReseedAfterApply(s, now, pause) ==
    [s EXCEPT !.adjust_pause_until = now + pause]

(* ------------------- steppers (service.py 407-549) --------------------- *)
AE_EV_ADAPT_ENABLE == TRUE
GAIN_ADAPT_ENABLE == TRUE
\* a bundle b carries the service attributes (b.s), the driver (b.cam) and
\* the names of the controls applied so far in this call (b.applied)
\* variant: the under step is not clamped to AE_EV_MAX
EvTargetUnclamped(ev, exp_state) ==
    IF exp_state = "under" THEN ev + AE_EV_STEP
    ELSE IF exp_state = "over" THEN Max(AE_EV_MIN, ev - AE_EV_STEP)
    ELSE IF ev > 0 THEN Max(0, ev - AE_EV_RETURN_STEP)
    ELSE IF ev < 0 THEN Min(0, ev + AE_EV_RETURN_STEP)
    ELSE ev
EvTarget(ev, exp_state) ==
    IF exp_state = "under" THEN Min(AE_EV_MAX, ev + AE_EV_STEP)
    ELSE IF exp_state = "over" THEN Max(AE_EV_MIN, ev - AE_EV_STEP)
    ELSE IF ev > 0 THEN Max(0, ev - AE_EV_RETURN_STEP)
    ELSE IF ev < 0 THEN Min(0, ev + AE_EV_RETURN_STEP)
    ELSE ev
\* variant: no debounce test
MaybeAdjustEvNoDebounce(b, exp_state, now, ok, pause) ==
    IF ~AE_EV_ADAPT_ENABLE THEN b
    ELSE IF ~SupportsEv(b.cam) THEN b
    ELSE LET ev == EvTarget(b.s.ev_bias, exp_state)
         IN  IF ev = b.s.ev_bias THEN b
             ELSE IF CamApplied(b.cam, ok)
             THEN [b EXCEPT !.s = ReseedAfterApply(
                                     [b.s EXCEPT !.ev_bias = ev,
                                                 !.ev_last_update = now],
                                     now, pause),
                            !.cam = CamSetEv(b.cam, ev, ok),
                            !.applied = b.applied \cup {"ev"}]
             ELSE b
MaybeAdjustEv(b, exp_state, now, ok, pause) ==
    IF ~AE_EV_ADAPT_ENABLE THEN b
    ELSE IF ~SupportsEv(b.cam) THEN b
    ELSE IF now - b.s.ev_last_update < AE_EV_UPDATE_INTERVAL_SEC THEN b
    ELSE IF exp_state \notin {"under", "over", "normal"} THEN b
    ELSE LET ev == EvTarget(b.s.ev_bias, exp_state)
         IN  IF ev = b.s.ev_bias THEN b
             ELSE IF CamApplied(b.cam, ok)
             THEN [b EXCEPT !.s = ReseedAfterApply(
                                     [b.s EXCEPT !.ev_bias = ev,
                                                 !.ev_last_update = now],
                                     now, pause),
                            !.cam = CamSetEv(b.cam, ev, ok),
                            !.applied = b.applied \cup {"ev"}]
             ELSE b

\* variant: the return to 1.0 takes a full step and is not stopped at 1.0
GainTargetOvershoot(g, exp_state) ==
    IF exp_state = "under" THEN Min(GAIN_MAX, g + GAIN_STEP)
    ELSE IF exp_state = "over" THEN Max(GAIN_MIN, g - GAIN_STEP)
    ELSE IF g > GAIN_BASE THEN g - GAIN_STEP - GAIN_RETURN_STEP
    ELSE IF g < GAIN_BASE THEN g + GAIN_STEP + GAIN_RETURN_STEP
    ELSE g
GainTarget(g, exp_state) ==
    IF exp_state = "under" THEN Min(GAIN_MAX, g + GAIN_STEP)
    ELSE IF exp_state = "over" THEN Max(GAIN_MIN, g - GAIN_STEP)
    ELSE IF g > GAIN_BASE THEN Max(GAIN_BASE, g - GAIN_RETURN_STEP)
    ELSE IF g < GAIN_BASE THEN Min(GAIN_BASE, g + GAIN_RETURN_STEP)
    ELSE g
\* variant: the state is updated whatever set_gain returns
MaybeAdjustGainIgnoresDriver(b, exp_state, now, ok, pause) ==
    IF ~GAIN_ADAPT_ENABLE THEN b
    ELSE IF ~SupportsGain(b.cam) THEN b
    ELSE IF now - b.s.gain_last_update < GAIN_UPDATE_INTERVAL_SEC THEN b
    ELSE LET g == GainTarget(b.s.gain_value, exp_state)
         IN  IF g = b.s.gain_value THEN b
             ELSE [b EXCEPT !.s = ReseedAfterApply(
                                     [b.s EXCEPT !.gain_value = g,
                                                 !.gain_last_update = now],
                                     now, pause),
                            !.cam = CamSetGain(b.cam, g, ok),
                            !.applied = b.applied \cup {"gain"}]
MaybeAdjustGain(b, exp_state, now, ok, pause) ==
    IF ~GAIN_ADAPT_ENABLE THEN b
    ELSE IF ~SupportsGain(b.cam) THEN b
    ELSE IF now - b.s.gain_last_update < GAIN_UPDATE_INTERVAL_SEC THEN b
    ELSE IF exp_state \notin {"under", "over", "normal"} THEN b
    ELSE LET g == GainTarget(b.s.gain_value, exp_state)
         IN  IF g = b.s.gain_value THEN b
             ELSE IF CamApplied(b.cam, ok)
             THEN [b EXCEPT !.s = ReseedAfterApply(
                                     [b.s EXCEPT !.gain_value = g,
                                                 !.gain_last_update = now],
                                     now, pause),
                            !.cam = CamSetGain(b.cam, g, ok),
                            !.applied = b.applied \cup {"gain"}]
             ELSE b

\* variant: raising the shutter leaves the manual flag alone
ShutterUpKeepsFlag(b, now, ok, pause) ==
    LET cur == b.s.shutter_us
        target == Min(SHUTTER_MAX_US, cur + SHUTTER_STEP_US)
    IN  IF target # cur /\ CamApplied(b.cam, ok)
        THEN [b EXCEPT !.s = ReseedAfterApply(
                                [b.s EXCEPT !.shutter_us = target,
                                            !.shutter_last_update = now],
                                now, pause),
                       !.cam = CamSetShutter(b.cam, target, ok),
                       !.applied = b.applied \cup {"shutter"}]
        ELSE b
\* the under branch of _maybe_adjust_shutter (513-526)
ShutterUp(b, now, ok, pause) ==
    LET cur == b.s.shutter_us
        target == Min(SHUTTER_MAX_US, cur + SHUTTER_STEP_US)
    IN  IF target # cur /\ CamApplied(b.cam, ok)
        THEN [b EXCEPT !.s = ReseedAfterApply(
                                [b.s EXCEPT !.shutter_us = target,
                                            !.manual_exposure = TRUE,
                                            !.shutter_last_update = now],
                                now, pause),
                       !.cam = CamSetShutter(b.cam, target, ok),
                       !.applied = b.applied \cup {"shutter"}]
        ELSE b
\* variant: the shutter steps down by SHUTTER_STEP_US toward SHUTTER_MIN_US
ShutterDownToMin(b, now, ok, okAe, pause) ==
    LET cur == b.s.shutter_us
        target == Max(SHUTTER_MIN_US, cur - SHUTTER_STEP_US)
    IN  IF target # cur /\ CamApplied(b.cam, ok)
        THEN [b EXCEPT !.s = ReseedAfterApply(
                                [b.s EXCEPT !.shutter_us = target,
                                            !.manual_exposure = TRUE,
                                            !.shutter_last_update = now],
                                now, pause),
                       !.cam = CamSetShutter(b.cam, target, ok),
                       !.applied = b.applied \cup {"shutter"}]
        ELSE b
\* the normal/over branch (527-546): step down toward base, then re-enable
\* auto exposure when within one return step of base
ShutterDown(b, now, ok, okAe, pause) ==
    LET cur == b.s.shutter_us
        target == Max(SHUTTER_BASE_US, cur - SHUTTER_RETURN_STEP_US)
        b1 == IF cur > SHUTTER_BASE_US /\ CamApplied(b.cam, ok)
              THEN [b EXCEPT !.s = ReseedAfterApply(
                                      [b.s EXCEPT !.shutter_us = target,
                                                  !.manual_exposure = TRUE,
                                                  !.shutter_last_update = now],
                                      now, pause),
                             !.cam = CamSetShutter(b.cam, target, ok),
                             !.applied = b.applied \cup {"shutter"}]
              ELSE b
    IN  IF Abs(b1.s.shutter_us - SHUTTER_BASE_US) <= SHUTTER_RETURN_STEP_US
           /\ CamApplied(b1.cam, okAe)
        THEN [b1 EXCEPT !.s = [b1.s EXCEPT !.manual_exposure = FALSE],
                        !.cam = CamSetAutoExposure(b1.cam, okAe)]
        ELSE b1
MaybeAdjustShutter(b, exp_state, now, ok, okAe, pause, enable) ==
    IF ~enable THEN b
    ELSE IF ~(HasSetShutter(b.cam) /\ SupportsShutter(b.cam)) THEN b
    ELSE IF now - b.s.shutter_last_update < SHUTTER_UPDATE_INTERVAL_SEC THEN b
    ELSE IF exp_state = "under" THEN ShutterUp(b, now, ok, pause)
    ELSE IF exp_state \in {"normal", "over"} THEN ShutterDown(b, now, ok, okAe, pause)
    ELSE b

(* ---------------- MotionDetector (detector.py 263-315) ----------------- *)
\* _prep: gray, no resize (MOTION_DOWNSCALE = 1.0), Gaussian blur with
\* MOTION_BLUR_KERNEL = 3 taps
\* (1/4, 1/2, 1/4), rounded to nearest
Prep(f) ==
    LET ReflectRight(i, n) == IF i < n THEN i + 1 ELSE IF n > 1 THEN n - 1 ELSE 1
    IN
    LET \* index of the neighbour under cv2's default reflect-101 border
        ReflectLeft(i, n) == IF i > 1 THEN i - 1 ELSE IF n > 1 THEN 2 ELSE 1
    IN
    LET n == Len1(f)
    IN  [i \in DOMAIN f |->
            (f[ReflectLeft(i, n)] + 2 * f[i] + f[ReflectRight(i, n)] + 2) \div 4]
\* cv2.threshold(diff, MOTION_DELTA_THRESH, 255, THRESH_BINARY)
Threshold(prev, cur) ==
    [i \in DOMAIN cur |-> Abs(prev[i] - cur[i]) > MOTION_DELTA_THRESH]
RECURSIVE Dilate(_, _)
Dilate(m, k) ==
    LET \* one iteration of cv2.dilate with the default 3x3 kernel
        Dilate1(mask) ==
            [i \in DOMAIN mask |->
                mask[i] \/ (i - 1 \in DOMAIN mask /\ mask[i - 1]) \/ (i + 1 \in DOMAIN mask /\ mask[i + 1])]
    IN
    IF k = 0 THEN m ELSE Dilate(Dilate1(m), k - 1)
\* cv2.countNonZero
ChangedPixels(prev, cur) ==
    LET m == Dilate(Threshold(prev, cur), MOTION_DILATE_ITER)
    IN  Cardinality({i \in DOMAIN m : m[i]})
\* variant: no full-frame fallback when no contour is large enough
RegionsNoFallback(m) ==
    LET big == {c \in [lo : DOMAIN m, hi : DOMAIN m] :
                   /\ c.lo <= c.hi
                   /\ \A i \in c.lo..c.hi : m[i]
                   /\ (c.lo - 1 \in DOMAIN m => ~m[c.lo - 1])
                   /\ (c.hi + 1 \in DOMAIN m => ~m[c.hi + 1])
                   /\ ~(0 < MOTION_MIN_PIXELS)}
    IN  {[x |-> c.lo - 1, w |-> c.hi - c.lo + 1] : c \in big}
\* bounding boxes of the contours that are large enough, or the full frame
Regions(m) ==
    LET \* cv2.contourArea of the outline of a run in a one-row image: a degenerate
        \* polygon encloses no area
        ContourArea(c) == (c.hi - c.lo) * 0
    IN
    LET \* external contours of a one-row mask: its maximal runs
        Contours(mask) ==
            {c \in [lo : DOMAIN mask, hi : DOMAIN mask] :
                /\ c.lo <= c.hi
                /\ \A i \in c.lo..c.hi : mask[i]
                /\ (c.lo - 1 \in DOMAIN mask => ~mask[c.lo - 1])
                /\ (c.hi + 1 \in DOMAIN mask => ~mask[c.hi + 1])}
    IN
    LET big == {c \in Contours(m) : ~(ContourArea(c) < MOTION_MIN_PIXELS)}
    IN  IF big = {} THEN {[x |-> 0, w |-> Len1(m)]}
        ELSE {[x |-> c.lo - 1, w |-> c.hi - c.lo + 1] : c \in big}
\* variant: a fixed background, the baseline is kept once it is set
DetectFixedBackground(prev, frame) ==
    LET cur == Prep(frame)
    IN  IF prev = None THEN [prev |-> cur, regions |-> {}]
        ELSE IF ChangedPixels(prev, cur) < MOTION_MIN_PIXELS
        THEN [prev |-> prev, regions |-> {}]
        ELSE [prev |-> prev,
              regions |-> Regions(Dilate(Threshold(prev, cur), MOTION_DILATE_ITER))]
\* detect(): returns the new baseline and the set of regions
Detect(prev, frame) ==
    LET cur == Prep(frame)
    IN  IF prev = None THEN [prev |-> cur, regions |-> {}]
        ELSE IF ChangedPixels(prev, cur) < MOTION_MIN_PIXELS
        THEN [prev |-> cur, regions |-> {}]
        ELSE [prev |-> cur,
              regions |-> Regions(Dilate(Threshold(prev, cur), MOTION_DILATE_ITER))]
\* detector.reset(): the class defines no reset attribute; the call raises
\* AttributeError, which every caller swallows, and the baseline stays
DetectorReset(prev) == prev
\* detector.seed(frame): likewise no seed attribute; the baseline stays
DetectorSeed(prev, frame) == prev

(* -------- enhanced frame used for display and detection (213-218) ------ *)
\* 1e-3 is one unit of EnhScale
Proc(f, s) ==
    LET \* cv2.convertScaleAbs: |p * alpha + beta| rounded and saturated to 8 bits
        ConvertScaleAbs(img, alpha, beta) ==
            [i \in DOMAIN img |->
                Min(255, (Abs(img[i] * alpha + beta) + (EnhScale \div 2)) \div EnhScale)]
    IN
    IF Abs(s.enh_alpha - EnhScale) > 1 \/ Abs(s.enh_beta) > 1
    THEN ConvertScaleAbs(f, s.enh_alpha, s.enh_beta)
    ELSE f

(* -------- adjustment window decision (service.py 348-393) -------------- *)
DetectStrideBase == Max(1, DETECT_EVERY_N_FRAMES)
\* the debounce test of the failsafe (373-384)
Need(last_update, interval, supported, now2) ==
    (last_update = 0 \/ now2 - last_update >= interval) /\ supported
\* variant: the periodic adjustment runs without opening a pause window
ScheduledWindowNoPause(b, now2, pause) ==
    IF now2 - b.s.adjust_last_ts >= MOTION_ADJUST_PERIOD_SEC
    THEN [b EXCEPT !.s = [b.s EXCEPT !.adjust_last_ts = now2],
                   !.run_adjust = TRUE,
                   !.window = "scheduled"]
    ELSE IF now2 < b.s.adjust_pause_until
    THEN [b EXCEPT !.run_adjust = TRUE, !.window = "open"]
    ELSE [b EXCEPT !.run_adjust = FALSE, !.window = "none"]
\* 1) periodic window, 2) still paused; detector.reset() raises and is
\* swallowed (356-359), _seed_at_resume is assigned after the try block
ScheduledWindow(b, now2, pause) ==
    IF now2 - b.s.adjust_last_ts >= MOTION_ADJUST_PERIOD_SEC
    THEN [b EXCEPT !.s = [b.s EXCEPT !.adjust_last_ts = now2,
                                     !.adjust_pause_until = now2 + pause,
                                     !.seed_at_resume = TRUE],
                   !.prev = DetectorReset(b.prev),
                   !.run_adjust = TRUE,
                   !.window = "scheduled"]
    ELSE IF now2 < b.s.adjust_pause_until
    THEN [b EXCEPT !.run_adjust = TRUE, !.window = "open"]
    ELSE [b EXCEPT !.run_adjust = FALSE, !.window = "none"]
\* variant: the failsafe opens its window without owing a seed
FailsafeWindowNoSeed(b, now2, pause) ==
    LET FailsafeNeeded(bd, t2) ==
            \/ Need(bd.s.ev_last_update, AE_EV_UPDATE_INTERVAL_SEC, SupportsEv(bd.cam), t2)
            \/ Need(bd.s.gain_last_update, GAIN_UPDATE_INTERVAL_SEC, SupportsGain(bd.cam), t2)
            \/ Need(bd.s.shutter_last_update, SHUTTER_UPDATE_INTERVAL_SEC,
                    SupportsShutter(bd.cam), t2)
    IN
    IF ~b.run_adjust /\ b.st.exposure_state \in {"under", "over"}
       /\ FailsafeNeeded(b, now2)
    THEN [b EXCEPT !.s = [b.s EXCEPT !.adjust_pause_until = now2 + pause],
                   !.prev = DetectorReset(b.prev),
                   !.run_adjust = TRUE,
                   !.window = "failsafe"]
    ELSE b
\* 3) failsafe
FailsafeWindow(b, now2, pause) ==
    LET FailsafeNeeded(bd, t2) ==
            \/ Need(bd.s.ev_last_update, AE_EV_UPDATE_INTERVAL_SEC, SupportsEv(bd.cam), t2)
            \/ Need(bd.s.gain_last_update, GAIN_UPDATE_INTERVAL_SEC, SupportsGain(bd.cam), t2)
            \/ Need(bd.s.shutter_last_update, SHUTTER_UPDATE_INTERVAL_SEC,
                    SupportsShutter(bd.cam), t2)
    IN
    IF ~b.run_adjust /\ b.st.exposure_state \in {"under", "over"}
       /\ FailsafeNeeded(b, now2)
    THEN [b EXCEPT !.s = [b.s EXCEPT !.adjust_pause_until = now2 + pause,
                                     !.seed_at_resume = TRUE],
                   !.prev = DetectorReset(b.prev),
                   !.run_adjust = TRUE,
                   !.window = "failsafe"]
    ELSE b

(* ----------- _update_exposure_and_adapt (service.py 282-405) ----------- *)
\* metrics and classification (289-317)
Estimate(b, frame) ==
    LET mean == Ema(b.s.exp_mean_ema, FrameMean(frame))
        low == Ema(b.s.exp_low_clip_ema, LowClip(frame))
        high == Ema(b.s.exp_high_clip_ema, HighClip(frame))
        exp_state == Classify(b.st.exposure_state, mean, low, high)
    IN  [b EXCEPT !.s = [b.s EXCEPT !.exp_mean_ema = mean,
                                    !.exp_low_clip_ema = low,
                                    !.exp_high_clip_ema = high],
                  !.st = [b.st EXCEPT !.exposure_state = exp_state,
                                      !.exposure_mean = mean]]
\* detection cadence (319-325)
AdaptStride(b) ==
    [b EXCEPT !.s = [b.s EXCEPT !.detect_stride_dyn =
        IF b.st.exposure_state \in {"over", "under"}
        THEN Max(1, DetectStrideBase * ADAPT_DETECT_STRIDE_SCALE)
        ELSE DetectStrideBase]]
\* now2 is the time read at lines 329 and 350, nowS the time the steppers
\* read (418, 462, 504)
UpdateExposureAndAdapt(b, frame, now2, nowS, ok, conf) ==
    LET \* mirror the controls into the published state (402-405)
        MirrorControls(bd) ==
            [bd EXCEPT !.st = [bd.st EXCEPT !.ev_bias = bd.s.ev_bias,
                                          !.gain = bd.s.gain_value,
                                          !.shutter_us = bd.s.shutter_us]]
    IN
    LET \* the three steppers, in the order of lines 395-401
        RunSteppers(bd, exp_state, tS, oks, c) ==
            IF bd.run_adjust
            THEN MaybeAdjustShutter(
                     MaybeAdjustGain(
                         MaybeAdjustEv([bd EXCEPT !.ran = TRUE], exp_state, tS, oks.ev,
                                       c.pause),
                         exp_state, tS, oks.gain, c.pause),
                     exp_state, tS, oks.shutter, oks.ae, c.pause, c.shutter_enable)
            ELSE bd
    IN
    IF ~conf.adaptive
    THEN [b EXCEPT !.st = [b.st EXCEPT !.exposure_state = "off"],
                   !.s = [b.s EXCEPT !.detect_stride_dyn = DetectStrideBase]]
    ELSE LET b1 == AdaptStride(Estimate(b, frame))
             b2 == [b1 EXCEPT !.s = EnhanceBlend(b1.s, b1.st.exposure_state, now2)]
             b3 == FailsafeWindow(ScheduledWindow(b2, now2, conf.pause), now2, conf.pause)
             b4 == [b3 EXCEPT !.now2 = now2,
                              !.pause_until_dec = b3.s.adjust_pause_until,
                              !.prev_exposure_state = b.st.exposure_state]
         IN  MirrorControls(RunSteppers(b4, b4.st.exposure_state, nowS, ok, conf))

vars == <<pc, clock, cfg, started, frame_idx, self, state, camera, detector, obs>>

SAVE_ON_DETECT == TRUE
SAVE_ANNOTATED_ON_DETECT == cfg.save_annotated
SAVE_RAW_ON_DETECT == cfg.save_raw

Configs ==
    {[DefaultConfig EXCEPT !.pause = p, !.adaptive = a, !.shutter_enable = e] :
        p \in {0, MOTION_ADJUST_PAUSE_SEC}, a \in BOOLEAN, e \in BOOLEAN}
        \cup {TightConfig,
              [DefaultConfig EXCEPT !.gain_min = 8],
              [DefaultConfig EXCEPT !.stride = 1],
              [DefaultConfig EXCEPT !.pause = 1]}
CameraKinds == {"picamera2", "v4l2"}
\* the driver accepts or rejects the value controls together; AeEnable apart
DriverAnswers ==
    {[ev |-> c, gain |-> c, shutter |-> c, ae |-> a] : c \in BOOLEAN, a \in BOOLEAN}
\* what may go wrong in the detection step: detect() raises, or imwrite raises
Faults == {"none", "detect", "save"}

\* SecurityCamService.__init__ (service.py 43-95)
InitSelf ==
    [exp_mean_ema |-> 0, exp_low_clip_ema |-> 0, exp_high_clip_ema |-> 0,
     detect_stride_dyn |-> DetectStrideBase,
     enh_alpha |-> EnhScale, enh_beta |-> 0,
     enh_tgt_alpha |-> EnhScale, enh_tgt_beta |-> 0, enh_hold_until |-> 0,
     ev_bias |-> 0, ev_last_update |-> 0,
     gain_value |-> GAIN_MIN, gain_last_update |-> 0,
     shutter_us |-> SHUTTER_BASE_US, shutter_last_update |-> 0,
     manual_exposure |-> FALSE,
     adjust_last_ts |-> 0, adjust_pause_until |-> 0, seed_at_resume |-> FALSE,
     last_frame_ts |-> 0, last_saved_ts |-> 0, latest_frame |-> None,
     stop |-> FALSE]
\* ServiceState defaults (service.py 18-37) and the mirrors of 93-95
InitState ==
    [detecting |-> FALSE, last_detection_ts |-> 0, saved_images_count |-> 0,
     total_frames |-> 0, armed |-> TRUE, exposure_state |-> "unknown",
     exposure_mean |-> 0, detect_stride |-> 1,
     ev_bias |-> 0, gain |-> GAIN_MIN, shutter_us |-> SHUTTER_BASE_US,
     person_count |-> 0, face_count |-> 0, last_kinds |-> {}]
InitCamera(kind) ==
    [kind |-> kind, ae |-> TRUE, ev |-> 0, gain |-> 0, shutter |-> 0,
     stop_called |-> FALSE, stop_error |-> FALSE]
\* the time each control was last changed on the driver; 0 is never
NeverApplied == [ev |-> 0, gain |-> 0, shutter |-> 0]
\* the fields api_state reads from the object get_status() returned
SnapOf(st) ==
    [total_frames |-> st.total_frames, armed |-> st.armed,
     exposure_state |-> st.exposure_state, exposure_mean |-> st.exposure_mean]
\* the fields that record what an iteration or call did
ObsFields ==
    {"kind", "step", "paused", "seed_called", "detect_called", "compared_to",
     "regions", "applied", "run_adjust", "ran", "window", "now2",
     "pause_until_dec", "prev_exposure_state", "proc", "saved",
     "after_seed", "armed_now", "hist", "since", "preceded_by",
     "before", "before_prev", "frame", "prev_frame",
     "ctl", "exp_in", "accepted", "accepted_ae", "calls",
     "applied_at", "prev_applied_at", "saved_raw", "save_at", "prev_save_at",
     "rd", "tried_at", "pace", "owed", "stale", "cmp_stale"}
NoObs ==
    [kind |-> "none", step |-> FALSE, paused |-> FALSE, seed_called |-> FALSE,
     detect_called |-> FALSE, compared_to |-> None, regions |-> {},
     applied |-> {}, run_adjust |-> FALSE, ran |-> FALSE, window |-> "none",
     now2 |-> 0, pause_until_dec |-> 0, prev_exposure_state |-> "unknown",
     proc |-> None, saved |-> FALSE,
     after_seed |-> FALSE, armed_now |-> FALSE, hist |-> <<>>,
     since |-> "construction", preceded_by |-> "none",
     before |-> InitSelf, before_prev |-> None, frame |-> None, prev_frame |-> None,
     ctl |-> "none", exp_in |-> "unknown", accepted |-> FALSE, accepted_ae |-> FALSE,
     calls |-> 0, applied_at |-> NeverApplied, prev_applied_at |-> NeverApplied,
     saved_raw |-> FALSE, save_at |-> 0, prev_save_at |-> 0,
     rd |-> [status |-> "idle", snap |-> SnapOf(InitState),
             completed |-> {SnapOf(InitState)},
             frame_lock |-> "free", copy |-> "idle"],
     tried_at |-> 0,
     pace |-> [now |-> 0, next |-> 0, starts |-> <<>>],
     owed |-> FALSE, stale |-> FALSE, cmp_stale |-> FALSE]

\* the state after construction, for one of the given configurations
InitFor(configs) ==
    /\ pc = "run"
    /\ clock = EpochStart
    /\ cfg \in configs
    /\ started = FALSE
    /\ frame_idx = 0
    /\ self = InitSelf
    /\ state = InitState
    /\ camera \in {InitCamera(k) : k \in CameraKinds}
    /\ detector = [prev |-> None]
    /\ obs = NoObs
Init == InitFor(Configs)

(* --------------- detection step of a tick (service.py 225-278) --------- *)
\* _maybe_save_frame (553-597): rate limit, then the annotated save, which
\* counts and stamps the save (583-591), then the raw save, which does
\* neither (593-597); saveOk: cv2.imwrite does not raise
MaybeSaveFrame(b, now, saveOk) ==
    IF now - b.s.last_saved_ts < SAVE_INTERVAL_SEC THEN b
    ELSE LET b1 == IF SAVE_ANNOTATED_ON_DETECT /\ saveOk
                   THEN [b EXCEPT !.st = [b.st EXCEPT !.saved_images_count = @ + 1],
                                  !.s = [b.s EXCEPT !.last_saved_ts = now],
                                  !.saved = TRUE]
                   ELSE b
         IN  IF SAVE_RAW_ON_DETECT /\ saveOk
             THEN [b1 EXCEPT !.saved = TRUE, !.saved_raw = TRUE]
             ELSE b1
\* variant: the pause window is not consulted before detect()
DetectStepIgnoresPause(b, proc, tDet, paused, detFault, saveOk) ==
    IF b.st.armed /\ ~b.seed_called
    THEN LET r == IF detFault THEN [prev |-> b.prev, regions |-> {}]
                  ELSE Detect(b.prev, proc)
         IN  [b EXCEPT !.prev = r.prev, !.regions = r.regions,
                       !.detect_called = TRUE, !.compared_to = b.prev]
    ELSE b
\* variant: detect() runs whether or not the schedule is armed
DetectStepIgnoresArmed(b, proc, tDet, paused, detFault, saveOk) ==
    IF ~paused /\ ~b.seed_called
    THEN LET r == IF detFault THEN [prev |-> b.prev, regions |-> {}]
                  ELSE Detect(b.prev, proc)
         IN  [b EXCEPT !.prev = r.prev, !.regions = r.regions,
                       !.detect_called = TRUE, !.compared_to = b.prev]
    ELSE b
\* detect() under the try of 249-254; detFault: detect raises in _prep
DetectStep(b, proc, tDet, paused, detFault, saveOk) ==
    IF b.st.armed /\ ~paused /\ ~b.seed_called
    THEN LET r == IF detFault THEN [prev |-> b.prev, regions |-> {}]
                  ELSE Detect(b.prev, proc)
             b1 == [b EXCEPT !.prev = r.prev, !.regions = r.regions,
                             !.detect_called = TRUE, !.compared_to = b.prev]
         IN  IF r.regions # {}
             THEN LET \* every region of the motion backend has kind "motion"
                      kinds == {"motion"}
                      b2 == [b1 EXCEPT !.st = [b1.st EXCEPT
                                 !.detecting = TRUE,
                                 !.last_detection_ts = tDet,
                                 !.person_count = IF "person" \in kinds
                                                  THEN Cardinality(r.regions) ELSE 0,
                                 !.face_count = IF "face" \in kinds
                                                THEN Cardinality(r.regions) ELSE 0,
                                 !.last_kinds = kinds \cap {"person", "face"}]]
                  IN  IF SAVE_ON_DETECT THEN MaybeSaveFrame(b2, tDet, saveOk) ELSE b2
             ELSE b1
    ELSE b
\* variant: the cooldown is only evaluated by ticks that may call detect()
DetectionStepCooldownWhenLooking(b, idx, proc, tDet, armed, detFault, saveOk) ==
    LET \* cooldown (272-277)
        Cooldown(bd, t) ==
            IF bd.st.armed /\ ~bd.paused /\ bd.regions = {}
               /\ t - bd.st.last_detection_ts > ALERT_COOLDOWN_SEC
            THEN [bd EXCEPT !.st = [bd.st EXCEPT !.detecting = FALSE,
                                                 !.person_count = 0,
                                                 !.face_count = 0,
                                                 !.last_kinds = {}]]
            ELSE bd
    IN
    LET \* seed owed and not paused: detector.seed(proc) raises AttributeError, which
        \* is swallowed; the flag is cleared and the tick skips detection (240-246)
        SeedStep(bd, pr, paused) ==
            IF bd.s.seed_at_resume /\ ~paused
            THEN [bd EXCEPT !.prev = DetectorSeed(bd.prev, pr),
                           !.s = [bd.s EXCEPT !.seed_at_resume = FALSE],
                           !.seed_called = TRUE]
            ELSE bd
    IN
    LET b0 == [b EXCEPT !.s = [b.s EXCEPT !.latest_frame = proc],
                        !.st = [b.st EXCEPT !.total_frames = @ + 1,
                                            !.armed = armed,
                                            !.detect_stride = b.s.detect_stride_dyn]]
        paused == tDet < b0.s.adjust_pause_until
    IN  IF idx % Max(1, b0.s.detect_stride_dyn) = 0
        THEN Cooldown(
                 DetectStep(SeedStep([b0 EXCEPT !.step = TRUE, !.paused = paused],
                                     proc, paused),
                            proc, tDet, paused, detFault, saveOk),
                 tDet)
        ELSE b0
\* publish the frame and counters (220-229), then the throttled detection
DetectionStep(b, idx, proc, tDet, armed, detFault, saveOk) ==
    LET \* cooldown (272-277)
        Cooldown(bd, t) ==
            IF bd.regions = {} /\ t - bd.st.last_detection_ts > ALERT_COOLDOWN_SEC
            THEN [bd EXCEPT !.st = [bd.st EXCEPT !.detecting = FALSE,
                                                 !.person_count = 0,
                                                 !.face_count = 0,
                                                 !.last_kinds = {}]]
            ELSE bd
    IN
    LET \* seed owed and not paused: detector.seed(proc) raises AttributeError, which
        \* is swallowed; the flag is cleared and the tick skips detection (240-246)
        SeedStep(bd, pr, paused) ==
            IF bd.s.seed_at_resume /\ ~paused
            THEN [bd EXCEPT !.prev = DetectorSeed(bd.prev, pr),
                           !.s = [bd.s EXCEPT !.seed_at_resume = FALSE],
                           !.seed_called = TRUE]
            ELSE bd
    IN
    LET b0 == [b EXCEPT !.s = [b.s EXCEPT !.latest_frame = proc],
                        !.st = [b.st EXCEPT !.total_frames = @ + 1,
                                            !.armed = armed,
                                            !.detect_stride = b.s.detect_stride_dyn]]
        paused == tDet < b0.s.adjust_pause_until
    IN  IF idx % Max(1, b0.s.detect_stride_dyn) = 0
        THEN Cooldown(
                 DetectStep(SeedStep([b0 EXCEPT !.step = TRUE, !.paused = paused],
                                     proc, paused),
                            proc, tDet, paused, detFault, saveOk),
                 tDet)
        ELSE b0

(* ------------------- the worker loop, _run (135-280) ------------------- *)
\* the latest frame camera.read() returned
LastFrame == IF obs.frame # None THEN obs.frame ELSE obs.prev_frame
Carry(kind) ==
    [NoObs EXCEPT !.kind = kind,
                  !.after_seed = (IF obs.kind = "frame" THEN obs.seed_called
                                  ELSE obs.after_seed),
                  !.hist = obs.hist, !.since = obs.since,
                  !.before = self, !.before_prev = detector.prev,
                  !.prev_frame = LastFrame, !.calls = obs.calls,
                  !.applied_at = obs.applied_at,
                  !.prev_applied_at = obs.applied_at,
                  !.save_at = obs.save_at, !.prev_save_at = obs.save_at,
                  !.rd = obs.rd, !.owed = obs.owed, !.stale = obs.stale]
Bundle(kind) ==
    [f \in ObsFields \cup {"s", "st", "cam", "prev"} |->
        CASE f = "s" -> self
          [] f = "st" -> state
          [] f = "cam" -> camera
          [] f = "prev" -> detector.prev
          [] OTHER -> Carry(kind)[f]]
Commit(b) ==
    LET ObsOf(bd) == [f \in ObsFields |-> bd[f]]
    IN
    /\ self' = b.s
    /\ state' = b.st
    /\ camera' = b.cam
    /\ detector' = [prev |-> b.prev]
    /\ obs' = ObsOf(b)
InTime(t) == t <= EpochStart + Horizon
\* variant: the loop never looks at the stop flag
LoopIgnoresStop == pc = "run"
\* `while not self._stop.is_set()` (142), tested once per iteration
LoopContinues == pc = "run" /\ ~self.stop

\* variant: a failed camera.start() is not caught and ends _run
IterStartFailedPropagates(gap) ==
    /\ LoopContinues
    /\ ~started
    /\ InTime(clock + gap)
    /\ clock' = clock + gap
    /\ pc' = "crashed"
    /\ obs' = [Carry("start_failed") EXCEPT !.tried_at = clock + gap]
    /\ UNCHANGED <<cfg, started, frame_idx, self, state, camera, detector>>
\* camera.start() raises: log, sleep 3 s, continue (152-160)
IterStartFailed(gap) ==
    /\ LoopContinues
    /\ ~started
    /\ InTime(clock + gap + START_RETRY_SEC)
    /\ clock' = clock + gap + START_RETRY_SEC
    /\ obs' = [Carry("start_failed") EXCEPT !.tried_at = clock + gap]
    /\ UNCHANGED <<pc, cfg, started, frame_idx, self, state, camera, detector>>

\* variant: a read without a frame still counts as a frame
IterNoFrameCounts(gap) ==
    /\ LoopContinues
    /\ InTime(clock + gap)
    /\ clock' = clock + gap
    /\ started' = TRUE
    /\ frame_idx' = frame_idx + 1
    /\ obs' = Carry("no_frame")
    /\ UNCHANGED <<pc, cfg, self, state, camera, detector>>
\* camera.read() returns None: sleep, continue (161-164)
IterNoFrame(gap) ==
    /\ LoopContinues
    /\ InTime(clock + gap)
    /\ clock' = clock + gap
    /\ started' = TRUE
    /\ obs' = Carry("no_frame")
    /\ UNCHANGED <<pc, cfg, frame_idx, self, state, camera, detector>>

\* the idle-gap test of line 167 once a frame has been seen before: Config
\* has no attribute SEED_AFTER_IDLE_SEC, so evaluating the right operand of
\* `and` raises AttributeError outside any try block and _run is left
IterIdleCheckRaises(gap, frame, armed) ==
    /\ LoopContinues
    /\ self.last_frame_ts # 0
    /\ InTime(clock + gap)
    /\ clock' = clock + gap
    /\ started' = TRUE
    /\ pc' = "crashed"
    /\ obs' = [Carry("idle_check_raised") EXCEPT !.armed_now = armed,
                                                 !.frame = frame]
    /\ UNCHANGED <<cfg, frame_idx, self, state, camera, detector>>

\* variant: the detection step runs before _update_exposure_and_adapt
IterFrameDetectFirst(gap, frame, d2, d3, ok, armed, fault) ==
    /\ LoopContinues
    /\ self.last_frame_ts = 0
    /\ LET now_frame == clock + gap
           now2 == now_frame
           nowS == now2 + d2
           tDet == nowS + d3
           b0 == [Bundle("frame") EXCEPT !.s = [self EXCEPT !.last_frame_ts = now_frame],
                                         !.armed_now = armed,
                                         !.frame = frame]
           proc == Proc(frame, b0.s)
           b1 == DetectionStep([b0 EXCEPT !.proc = proc], frame_idx, proc, tDet,
                               armed, fault = "detect", fault # "save")
           b2 == UpdateExposureAndAdapt(b1, frame, now2, nowS, ok, cfg)
       IN  /\ InTime(tDet)
           /\ clock' = tDet
           /\ Commit(b2)
    /\ started' = TRUE
    /\ frame_idx' = frame_idx + 1
    /\ UNCHANGED <<pc, cfg>>
\* a frame is read and processed to the end of the loop body (161-280);
\* the idle-gap test short-circuits because _last_frame_ts is still 0.0
IterFrame(gap, frame, d2, d3, ok, armed, fault) ==
    /\ LoopContinues
    /\ self.last_frame_ts = 0
    /\ LET now_frame == clock + gap
           now2 == now_frame
           nowS == now2 + d2
           tDet == nowS + d3
           b0 == [Bundle("frame") EXCEPT !.s = [self EXCEPT !.last_frame_ts = now_frame],
                                         !.armed_now = armed,
                                         !.frame = frame]
           b1 == UpdateExposureAndAdapt(b0, frame, now2, nowS, ok, cfg)
           proc == Proc(frame, b1.s)
           b2 == DetectionStep([b1 EXCEPT !.proc = proc], frame_idx, proc, tDet,
                               armed, fault = "detect", fault # "save")
       IN  /\ InTime(tDet)
           /\ clock' = tDet
           /\ Commit(b2)
    /\ started' = TRUE
    /\ frame_idx' = frame_idx + 1
    /\ UNCHANGED <<pc, cfg>>

(* ---- the body of the loop, tick after tick (service.py 175-280) ------- *)
\* one pass through lines 175-280 for a frame read `gap` seconds after the
\* last one: exposure update and control adapter, publication, detection
\* step.  For the claims about sequences of ticks the idle check of 165-173
\* is left out, so that a second tick exists to speak about.
CallTick(gap, frame, ok, armed) ==
    /\ obs.calls < MaxCalls
    /\ InTime(clock + gap)
    /\ LET now == clock + gap
           b0 == [Bundle("frame") EXCEPT !.s = [self EXCEPT !.last_frame_ts = now],
                                         !.armed_now = armed,
                                         !.frame = frame,
                                         !.calls = obs.calls + 1]
       IN  \E b1 \in {UpdateExposureAndAdapt(b0, frame, now, now, ok, cfg)} :
           \E proc \in {Proc(frame, b1.s)} :
           \E b2 \in {DetectionStep([b1 EXCEPT !.proc = proc], frame_idx, proc, now,
                                    armed, FALSE, TRUE)} :
               LET \* a pause window was opened or extended in this tick
                   opened == \/ b1.window \in {"scheduled", "failsafe"}
                             \/ b1.s.adjust_pause_until # self.adjust_pause_until
               IN  /\ clock' = now
                   /\ Commit([b2 EXCEPT
                          !.owed = IF b2.seed_called THEN FALSE
                                   ELSE obs.owed \/ opened,
                          !.stale = IF b2.detect_called \/ b2.prev = None THEN FALSE
                                    ELSE obs.stale \/ ~armed,
                          !.cmp_stale = /\ b2.detect_called
                                        /\ b2.compared_to # None
                                        /\ obs.stale])
    /\ frame_idx' = frame_idx + 1
    /\ UNCHANGED <<pc, cfg, started>>
\* ticks of a service that detects on every frame: without the adaptive
\* block, with a one-second pause window, and with the narrow control ranges
SpecTicks ==
    /\ InitFor({[DefaultConfig EXCEPT !.adaptive = FALSE, !.stride = 1, !.cooldown = 1],
                [DefaultConfig EXCEPT !.pause = 1, !.stride = 1, !.cooldown = 1],
                [TightConfig EXCEPT !.pause = 1, !.stride = 1, !.cooldown = 1]})
    /\ [][\E gap \in {0, 1, 2}, armed \in BOOLEAN,
              frame \in {[i \in 1..FrameLen |-> v] : v \in {0, 120}},
              ok \in {[ev |-> c, gain |-> c, shutter |-> c, ae |-> TRUE] : c \in BOOLEAN} :
              CallTick(gap, frame, ok, armed)]_vars

Next ==
    \/ \E gap \in 0..MaxGap : IterStartFailed(gap)
    \/ \E gap \in 0..MaxGap : IterNoFrame(gap)
    \/ \E gap \in 0..MaxGap, frame \in LoopFrames, armed \in BOOLEAN :
            IterIdleCheckRaises(gap, frame, armed)
    \/ \E gap \in 0..MaxGap, frame \in LoopFrames, d2, d3 \in Delays,
          ok \in DriverAnswers, armed \in BOOLEAN, fault \in Faults :
            IterFrame(gap, frame, d2, d3, ok, armed, fault)

Spec == Init /\ [][Next]_vars

(* ---- MotionDetector driven call by call, as the service calls it ------ *)
CallDetect(frame) ==
    /\ LET r == Detect(detector.prev, frame)
       IN  /\ detector' = [prev |-> r.prev]
           /\ obs' = [Carry("detect") EXCEPT !.detect_called = TRUE,
                                            !.regions = r.regions,
                                            !.compared_to = detector.prev,
                                            !.proc = frame,
                                            !.frame = frame,
                                            !.preceded_by = obs.since,
                                            !.since = "detect"]
    /\ UNCHANGED <<pc, clock, cfg, started, frame_idx, self, state, camera>>
\* detector.reset() as written at 169, 357, 389, 447, 488, 523, 538
CallReset ==
    /\ detector' = [prev |-> DetectorReset(detector.prev)]
    /\ obs' = [Carry("reset") EXCEPT !.since = "reset"]
    /\ UNCHANGED <<pc, clock, cfg, started, frame_idx, self, state, camera>>
\* detector.seed(proc) as written at 242
CallSeed(frame) ==
    /\ detector' = [prev |-> DetectorSeed(detector.prev, frame)]
    /\ obs' = [Carry("seed") EXCEPT !.seed_called = TRUE, !.proc = frame,
                                    !.since = "seed"]
    /\ UNCHANGED <<pc, clock, cfg, started, frame_idx, self, state, camera>>
\* a detector constructed with the default and with a zero MOTION_MIN_PIXELS
InitDetector ==
    /\ InitFor({DefaultConfig, [DefaultConfig EXCEPT !.min_pixels = 0]})
    /\ camera.kind = "picamera2"
SpecDetector ==
    /\ InitDetector
    /\ [][\/ \E frame \in Frames : CallDetect(frame)
          \/ CallReset
          \/ \E frame \in Frames : CallSeed(frame)]_vars

(* ---- _update_exposure_and_adapt called once per frame interval -------- *)
CallUpdate(frame) ==
    /\ Len(obs.hist) < MaxCalls
    /\ LET now2 == clock + (1 \div (IF CAPTURE_FPS > 1 THEN CAPTURE_FPS ELSE 1))
           b1 == UpdateExposureAndAdapt(Bundle("update"), frame, now2, now2,
                                        [ev |-> TRUE, gain |-> TRUE, shutter |-> TRUE, ae |-> TRUE], cfg)
           b2 == [b1 EXCEPT !.hist = Append(obs.hist,
                                [mean |-> FrameMean(frame),
                                 st |-> b1.st.exposure_state])]
       IN  /\ clock' = now2
           /\ Commit(b2)
    /\ UNCHANGED <<pc, cfg, started, frame_idx>>
NextEstimator ==
    \E frame \in {f \in Frames : \A i \in DOMAIN f : f[i] = f[1]}
                    \cup {[i \in 1..FrameLen |-> IF i = 1 THEN 255 ELSE 0]} :
        CallUpdate(frame)
SpecEstimator == Init /\ [][NextEstimator]_vars
SpecEnhance ==
    /\ InitFor({DefaultConfig, [DefaultConfig EXCEPT !.blend_num = 0],
                [DefaultConfig EXCEPT !.blend_num = ENHANCE_BLEND_DEN]})
    /\ [][NextEstimator]_vars

(* ---- _update_exposure_and_adapt and detect() interleaved -------------- *)
SpecWindow ==
    /\ InitFor({DefaultConfig, [DefaultConfig EXCEPT !.pause = 0],
                [DefaultConfig EXCEPT !.pause = 1], TightConfig,
                [DefaultConfig EXCEPT !.min_pixels = 0]})
    /\ [][\/ \E frame \in {[i \in 1..FrameLen |-> v] : v \in {0, 120, 255}} :
                CallUpdate(frame)
          \/ \E frame \in {[i \in 1..FrameLen |-> v] : v \in {0, 255}} :
                CallDetect(frame)]_vars

(* ------------------- pacing of the loop (137-151) ---------------------- *)
\* variant: the schedule is never reset after the loop has fallen behind
NextFrameTsNoReset(next, now, interval) == next + interval
\* the next scheduled tick (148-151)
NextFrameTs(next, now, interval) ==
    IF next + interval < now THEN now + interval ELSE next + interval
\* one iteration of the loop as far as the pacing goes, in units of
\* 1/PaceScale s: before the scheduled time it sleeps min(0.1 s, rest) and
\* continues; otherwise a tick starts, the schedule advances and the body
\* runs. late: what the sleep overshoots by, or how long the body takes.
PaceIteration(late) ==
    /\ Len(obs.pace.starts) < MaxTicks
    /\ LET p == obs.pace
           interval == PaceScale \div Max(1, CAPTURE_FPS)
       IN  obs' = [obs EXCEPT !.pace =
               IF p.now < p.next
               THEN [p EXCEPT !.now = p.now + Min(PaceScale \div 10, p.next - p.now) + late]
               ELSE [now |-> p.now + late,
                     next |-> NextFrameTs(p.next, p.now, interval),
                     starts |-> Append(p.starts, p.now)]]
    /\ UNCHANGED <<pc, clock, cfg, started, frame_idx, self, state, camera, detector>>
SpecPacing ==
    /\ InitFor({DefaultConfig})
    /\ [][\E late \in {0, 1, PaceScale \div 2, PaceScale, 3 * PaceScale} :
                PaceIteration(late)]_vars

(* ---------------- start(), stop() and the end of _run ------------------ *)
\* start() (98-101): the thread is created and started; start() returns
ServiceStart ==
    /\ pc = "new"
    /\ pc' = "run"
    /\ obs' = Carry("service_started")
    /\ UNCHANGED <<clock, cfg, started, frame_idx, self, state, camera, detector>>
\* stop(), line 105: self._stop.set()
ServiceStop ==
    /\ ~self.stop
    /\ self' = [self EXCEPT !.stop = TRUE]
    /\ obs' = [obs EXCEPT !.kind = "stop_requested"]
    /\ UNCHANGED <<pc, clock, cfg, started, frame_idx, state, camera, detector>>
\* the loop test of line 142 finds the flag set: _run returns
WorkerExits ==
    /\ pc = "run"
    /\ self.stop
    /\ pc' = "exited"
    /\ obs' = [obs EXCEPT !.kind = "worker_exited"]
    /\ UNCHANGED <<clock, cfg, started, frame_idx, self, state, camera, detector>>
\* stop(), lines 106-108: join(timeout=2) returns because the thread is not
\* alive or has ended or the two seconds are over, then camera.stop(),
\* whose driver error is swallowed inside the wrapper (camera.py 168-176,
\* 297-304)
StopReleaseCamera(timed_out, err) ==
    /\ self.stop
    /\ ~camera.stop_called
    /\ pc \notin {"run", "body"} \/ timed_out
    /\ camera' = [camera EXCEPT !.stop_called = TRUE, !.stop_error = err]
    /\ obs' = [obs EXCEPT !.kind = "camera_released"]
    /\ UNCHANGED <<pc, clock, cfg, started, frame_idx, self, state, detector>>
InitLifecycle ==
    \E k \in CameraKinds :
        /\ pc = "new"
        /\ clock = EpochStart
        /\ cfg \in {DefaultConfig}
        /\ started = FALSE
        /\ frame_idx = 0
        /\ self = InitSelf
        /\ state = InitState
        /\ camera = InitCamera(k)
        /\ detector = [prev |-> None]
        /\ obs = NoObs
NextLifecycle ==
    \/ Next
    \/ ServiceStart
    \/ ServiceStop
    \/ WorkerExits
    \/ (\E timed_out, err \in BOOLEAN : StopReleaseCamera(timed_out, err))
SpecLifecycle == InitLifecycle /\ [][NextLifecycle]_vars
\* the worker thread and the thread inside stop() are both scheduled
SpecLifecycleFair ==
    /\ SpecLifecycle
    /\ WF_vars(WorkerExits)
    /\ WF_vars(\E timed_out, err \in BOOLEAN : StopReleaseCamera(timed_out, err))

(* ---- stop() beside a worker that is inside an iteration --------------- *)
\* the loop test of line 142 finds the flag clear: the worker enters the body
WorkerPassesTest ==
    /\ LoopContinues
    /\ pc' = "body"
    /\ obs' = [obs EXCEPT !.kind = "in_body"]
    /\ UNCHANGED <<clock, cfg, started, frame_idx, self, state, camera, detector>>
\* the body of one iteration (143-280), which does not look at the flag:
\* camera.start() when not started, which raises ("start_failed") or
\* returns; camera.read(), which returns None ("no_frame") or a frame; the
\* idle check, which raises from the second frame on; the tick
WorkerBody(gap, outcome, frame, ok, armed) ==
    /\ pc = "body"
    /\ outcome = "start_failed" => ~started
    /\ LET now == clock + gap
           crash == outcome = "frame" /\ self.last_frame_ts # 0
           kind == IF crash THEN "idle_check_raised" ELSE outcome
           b0 == [Bundle("frame") EXCEPT !.s = [self EXCEPT !.last_frame_ts = now],
                                         !.armed_now = armed,
                                         !.frame = frame]
       IN  /\ InTime(now + (IF outcome = "start_failed" THEN START_RETRY_SEC ELSE 0))
           /\ clock' = now + (IF outcome = "start_failed" THEN START_RETRY_SEC ELSE 0)
           /\ IF outcome = "frame" /\ ~crash
              THEN \E b1 \in {UpdateExposureAndAdapt(b0, frame, now, now, ok, cfg)} :
                   \E proc \in {Proc(frame, b1.s)} :
                       Commit(DetectionStep([b1 EXCEPT !.proc = proc], frame_idx, proc,
                                            now, armed, FALSE, TRUE))
              ELSE /\ obs' = [Carry(kind) EXCEPT
                                 !.tried_at = IF outcome = "start_failed" THEN now ELSE 0,
                                 !.armed_now = outcome = "frame" /\ armed,
                                 !.frame = IF outcome = "frame" THEN frame ELSE None]
                   /\ UNCHANGED <<self, state, camera, detector>>
           /\ pc' = IF crash THEN "crashed" ELSE "run"
           /\ frame_idx' = IF outcome = "frame" /\ ~crash THEN frame_idx + 1 ELSE frame_idx
    /\ started' = (outcome # "start_failed")
    /\ UNCHANGED cfg
\* start(), the worker step by step, and stop() with its join timeout
SpecStopRace ==
    /\ InitLifecycle
    /\ [][\/ ServiceStart
          \/ ServiceStop
          \/ WorkerExits
          \/ WorkerPassesTest
          \/ \E timed_out, err \in BOOLEAN : StopReleaseCamera(timed_out, err)
          \/ \E gap \in 0..MaxGap, outcome \in {"start_failed", "no_frame", "frame"},
                frame \in {[i \in 1..FrameLen |-> v] : v \in {0, 255}},
                ok \in DriverAnswers, armed \in BOOLEAN :
                    WorkerBody(gap, outcome, frame, ok, armed)]_vars

(* ---- the worker loop with a request-serving thread beside it ---------- *)
\* a tick up to the frame lock of line 221: read, _update_exposure_and_adapt
\* (which writes ServiceState.exposure_*) and the enhancement
TickUpdate(gap, frame, d2, ok) ==
    /\ LoopContinues
    /\ self.last_frame_ts = 0
    /\ LET now_frame == clock + gap
           nowS == now_frame + d2
           b0 == [Bundle("tick_update") EXCEPT
                      !.s = [self EXCEPT !.last_frame_ts = now_frame],
                      !.frame = frame]
           b1 == UpdateExposureAndAdapt(b0, frame, now_frame, nowS, ok, cfg)
       IN  /\ InTime(nowS)
           /\ clock' = nowS
           /\ Commit(b1)
    /\ pc' = "publish"
    /\ started' = TRUE
    /\ UNCHANGED <<cfg, frame_idx>>
\* the rest of the tick: `with self._frame_lock` waits while a reader holds
\* the lock, swaps the reference, then the counters and the detection step
TickPublish(d3, armed, fault) ==
    /\ pc = "publish"
    /\ obs.rd.frame_lock = "free"
    /\ LET tDet == clock + d3
           proc == Proc(LastFrame, self)
           b0 == [Bundle("tick_publish") EXCEPT !.proc = proc, !.armed_now = armed]
           b1 == DetectionStep(b0, frame_idx, proc, tDet, armed,
                               fault = "detect", fault # "save")
           b2 == [b1 EXCEPT !.rd = [b1.rd EXCEPT
                                       !.completed = @ \cup {SnapOf(b1.st)}]]
       IN  /\ InTime(tDet)
           /\ clock' = tDet
           /\ Commit(b2)
    /\ pc' = "run"
    /\ frame_idx' = frame_idx + 1
    /\ UNCHANGED <<cfg, started>>
\* api_state (web.py 97-119): st = service.get_status() is the live
\* ServiceState object (service.py 117-119); its attributes are read one
\* after the other, the counters before the exposure fields
ReadCounters ==
    /\ obs.rd.status = "idle"
    /\ obs' = [obs EXCEPT !.rd = [obs.rd EXCEPT
                   !.status = "half",
                   !.snap = [@ EXCEPT !.total_frames = state.total_frames,
                                      !.armed = state.armed]]]
    /\ UNCHANGED <<pc, clock, cfg, started, frame_idx, self, state, camera, detector>>
ReadExposure ==
    /\ obs.rd.status = "half"
    /\ obs' = [obs EXCEPT !.rd = [obs.rd EXCEPT
                   !.status = "done",
                   !.snap = [@ EXCEPT !.exposure_state = state.exposure_state,
                                      !.exposure_mean = state.exposure_mean]]]
    /\ UNCHANGED <<pc, clock, cfg, started, frame_idx, self, state, camera, detector>>
\* get_latest_frame (110-115): the None test and the copy are made with
\* _frame_lock held
LatestFrameAcquire ==
    /\ obs.rd.copy = "idle"
    /\ obs.rd.frame_lock = "free"
    /\ obs' = [obs EXCEPT !.rd = [obs.rd EXCEPT !.frame_lock = "reader",
                                                !.copy = "copying"]]
    /\ UNCHANGED <<pc, clock, cfg, started, frame_idx, self, state, camera, detector>>
LatestFrameRelease ==
    /\ obs.rd.copy = "copying"
    /\ obs' = [obs EXCEPT !.rd = [obs.rd EXCEPT !.frame_lock = "free",
                                                !.copy = "done"]]
    /\ UNCHANGED <<pc, clock, cfg, started, frame_idx, self, state, camera, detector>>
NextReaders ==
    \/ \E gap \in 0..MaxGap, frame \in LoopFrames, d2 \in Delays, ok \in DriverAnswers :
            TickUpdate(gap, frame, d2, ok)
    \/ \E d3 \in Delays, armed \in BOOLEAN, fault \in Faults :
            TickPublish(d3, armed, fault)
    \/ \E gap \in 0..MaxGap, frame \in LoopFrames, armed \in BOOLEAN :
            IterIdleCheckRaises(gap, frame, armed)
    \/ ReadCounters
    \/ ReadExposure
    \/ LatestFrameAcquire
    \/ LatestFrameRelease
SpecReaders ==
    /\ InitFor({DefaultConfig, [DefaultConfig EXCEPT !.adaptive = FALSE]})
    /\ [][NextReaders]_vars

(* ---- _maybe_save_frame called once per detection, as line 270 does ---- *)
CallMaybeSaveFrame(gap, saveOk) ==
    /\ obs.calls < MaxSaves
    /\ LET now == clock + gap
           b0 == [Bundle("save") EXCEPT !.calls = obs.calls + 1]
           b1 == MaybeSaveFrame(b0, now, saveOk)
           b2 == [b1 EXCEPT !.save_at = IF b1.saved THEN now ELSE b1.save_at]
       IN  /\ clock' = now
           /\ Commit(b2)
    /\ UNCHANGED <<pc, cfg, started, frame_idx>>
SpecSave ==
    /\ InitFor({[DefaultConfig EXCEPT !.save_annotated = a, !.save_raw = r] :
                   a \in BOOLEAN, r \in BOOLEAN})
    /\ [][\E gap \in 0..MaxGap, saveOk \in BOOLEAN : CallMaybeSaveFrame(gap, saveOk)]_vars

(* ---- the steppers called one at a time, as lines 397-401 call them ---- *)
ExposureStates == {"under", "over", "normal"}
\* the call is counted and the time of an applied change is kept
StepperCall(ctl, exp_state, accepted, acceptedAe) ==
    [Bundle("stepper") EXCEPT !.ctl = ctl, !.exp_in = exp_state,
                              !.accepted = accepted, !.accepted_ae = acceptedAe,
                              !.calls = obs.calls + 1]
StepperDone(b, now) ==
    [b EXCEPT !.applied_at =
        [c \in DOMAIN b.applied_at |->
            IF c \in b.applied THEN now ELSE b.applied_at[c]]]
CallMaybeAdjustEv(exp_state, gap, ok) ==
    /\ obs.calls < MaxSteps
    /\ LET now == clock + gap
           b0 == StepperCall("ev", exp_state, CamApplied(camera, ok), FALSE)
       IN  /\ clock' = now
           /\ Commit(StepperDone(MaybeAdjustEv(b0, exp_state, now, ok, cfg.pause), now))
    /\ UNCHANGED <<pc, cfg, started, frame_idx>>
CallMaybeAdjustGain(exp_state, gap, ok) ==
    /\ obs.calls < MaxSteps
    /\ LET now == clock + gap
           b0 == StepperCall("gain", exp_state, CamApplied(camera, ok), FALSE)
       IN  /\ clock' = now
           /\ Commit(StepperDone(MaybeAdjustGain(b0, exp_state, now, ok, cfg.pause), now))
    /\ UNCHANGED <<pc, cfg, started, frame_idx>>
CallMaybeAdjustShutter(exp_state, gap, ok, okAe) ==
    /\ obs.calls < MaxSteps
    /\ LET now == clock + gap
           b0 == StepperCall("shutter", exp_state, CamApplied(camera, ok),
                             CamApplied(camera, okAe))
       IN  /\ clock' = now
           /\ Commit(StepperDone(
                  MaybeAdjustShutter(b0, exp_state, now, ok, okAe, cfg.pause,
                                     cfg.shutter_enable), now))
    /\ UNCHANGED <<pc, cfg, started, frame_idx>>
NextSteppers ==
    \/ \E exp_state \in ExposureStates, gap \in 0..MaxGap, ok \in BOOLEAN :
            CallMaybeAdjustEv(exp_state, gap, ok)
    \/ \E exp_state \in ExposureStates, gap \in 0..MaxGap, ok \in BOOLEAN :
            CallMaybeAdjustGain(exp_state, gap, ok)
    \/ \E exp_state \in ExposureStates, gap \in 0..MaxGap, ok \in BOOLEAN,
          okAe \in BOOLEAN :
            CallMaybeAdjustShutter(exp_state, gap, ok, okAe)
SpecSteppers ==
    /\ InitFor({DefaultConfig, TightConfig, [DefaultConfig EXCEPT !.gain_min = 8]})
    /\ [][NextSteppers]_vars

(* ============================== claims ================================ *)
\* a loop iteration in which camera.read() returned a frame
ReceivedFrame == obs.kind \in {"frame", "idle_check_raised"}
\* the pause window as the detection step of the latest tick saw it
WindowOpen == clock < self.adjust_pause_until

\* C1: in every tick whose detection step runs while the pause window is
\* open, detect() is not invoked and no detection is reported or saved.
C1_NoDetectWhilePaused ==
    (obs.kind = "frame" /\ obs.step /\ WindowOpen)
        => (~obs.detect_called /\ obs.regions = {} /\ ~obs.saved)
C1_Witness ==
    /\ obs.kind = "frame" /\ obs.step /\ WindowOpen
    /\ obs.armed_now /\ cfg.pause > 0 /\ ~obs.detect_called

\* C2: every pause window gets exactly one seed(), in the first tick whose
\* time is at or past pause_until: a frame that arrives then, with a reseed
\* pending, is handled by a tick that sets the baseline to the current frame
\* instead of detecting, and clears the pending flag.
C2_OneSeedAtClose ==
    /\ (ReceivedFrame /\ self.adjust_last_ts # 0 /\ ~WindowOpen)
           => ~self.seed_at_resume
    /\ (obs.kind = "frame" /\ obs.seed_called)
           => (detector.prev = Prep(obs.proc) /\ ~obs.detect_called)

\* C3: the tick after the one that seeded at the close of a pause window
\* invokes detect() when the schedule is armed.
C3_DetectAfterSeed ==
    (ReceivedFrame /\ obs.after_seed /\ obs.armed_now) => obs.detect_called

\* C4: with a positive pause duration, a tick in which a stepper applied a
\* new value does not invoke detect() (it is paused, or spends its detection
\* step on the seed), and the steppers only run while the pause window is
\* open at the time the adjustment was decided.
C4_NoApplyAndDetect ==
    cfg.pause > 0 =>
        /\ (obs.applied # {}) => ~obs.detect_called
        /\ (obs.applied # {} /\ obs.step) => (WindowOpen \/ obs.seed_called)
        /\ obs.ran => obs.now2 < obs.pause_until_dec
C4_Witness ==
    /\ cfg.pause > 0 /\ obs.kind = "frame" /\ obs.step /\ obs.armed_now
    /\ obs.applied # {} /\ WindowOpen /\ ~obs.detect_called

\* C5: opening a pause window clears the motion baseline and the seed step
\* at its close sets the baseline to the (preprocessed) current frame, so
\* the next detect() never compares against a frame from before or during
\* the adjustment.
C5_BaselineReseeded ==
    /\ (obs.kind = "frame" /\ obs.seed_called) => detector.prev = Prep(obs.proc)
    /\ (obs.kind = "frame" /\ obs.window \in {"scheduled", "failsafe"}
        /\ ~obs.seed_called /\ ~obs.detect_called) => detector.prev = None

\* C6: the first detect() after construction, after reset() or after seed()
\* returns no region.
C6_FirstDetectEmpty ==
    (obs.kind = "detect" /\ obs.preceded_by \in {"construction", "reset", "seed"})
        => obs.regions = {}

\* C7: the capture task never terminates because of a processing fault: the
\* worker loop is never left by an exception.
C7_WorkerNeverDies == pc = "run"

\* C8 as stated: once Under, a tick whose smoothed mean is between the enter
\* and the exit threshold keeps the state Under, and the state becomes
\* Normal only on a tick whose smoothed mean is not below the exit threshold.
AfterUpdate == obs.kind = "update" /\ cfg.adaptive
MeanInBand ==
    /\ self.exp_mean_ema >= EXP_DARK_MEAN * EmaScale
    /\ self.exp_mean_ema < EXP_DARK_MEAN_EXIT * EmaScale
C8_Original ==
    (AfterUpdate /\ obs.prev_exposure_state = "under") =>
        /\ MeanInBand => state.exposure_state = "under"
        /\ state.exposure_state = "normal"
               => self.exp_mean_ema >= EXP_DARK_MEAN_EXIT * EmaScale
\* C8 amended: once Under, a tick whose smoothed mean is between the two
\* thresholds keeps the state Under unless the high-clip EMA exceeds its
\* threshold, in which case the state is Over; the state becomes Normal only
\* on a tick whose smoothed mean is not below the exit threshold.
C8_Hysteresis ==
    (AfterUpdate /\ obs.prev_exposure_state = "under") =>
        /\ MeanInBand =>
               \/ state.exposure_state = "under"
               \/ /\ state.exposure_state = "over"
                  /\ self.exp_high_clip_ema * EXP_HIGH_CLIP_FRAC_DEN > EmaScale
        /\ (MeanInBand
            /\ ~(self.exp_high_clip_ema * EXP_HIGH_CLIP_FRAC_DEN > EmaScale))
               => state.exposure_state = "under"
        /\ state.exposure_state = "normal"
               => self.exp_mean_ema >= EXP_DARK_MEAN_EXIT * EmaScale
C8_Witness ==
    /\ AfterUpdate /\ obs.prev_exposure_state = "under" /\ MeanInBand
    /\ ~(self.exp_low_clip_ema * EXP_LOW_CLIP_FRAC_DEN > EmaScale)
    /\ state.exposure_state = "under"

\* C9 as stated: frames of mean 30, 45, 55 on the first three ticks give the
\* states Under, Under, Normal.
ExampleFed ==
    /\ AfterUpdate /\ Len(obs.hist) = 3
    /\ \A i \in 1..3 : obs.hist[i].mean = <<30 * EmaScale, 45 * EmaScale, 55 * EmaScale>>[i]
OverHolds ==
    \/ self.exp_high_clip_ema * EXP_HIGH_CLIP_FRAC_DEN > EmaScale
    \/ self.exp_mean_ema > EXP_BRIGHT_MEAN * EmaScale
UnderHolds ==
    \/ self.exp_low_clip_ema * EXP_LOW_CLIP_FRAC_DEN > EmaScale
    \/ /\ obs.prev_exposure_state = "under"
       /\ self.exp_mean_ema < EXP_DARK_MEAN_EXIT * EmaScale
    \/ /\ obs.prev_exposure_state # "under"
       /\ self.exp_mean_ema < EXP_DARK_MEAN * EmaScale
C10_Priority ==
    AfterUpdate =>
        /\ OverHolds => state.exposure_state = "over"
        /\ (~OverHolds /\ UnderHolds) => state.exposure_state = "under"
        /\ (~OverHolds /\ ~UnderHolds) => state.exposure_state = "normal"
C10_Witness ==
    /\ AfterUpdate /\ OverHolds /\ UnderHolds
    /\ obs.prev_exposure_state = "under" /\ state.exposure_state = "over"

(* --------------------------- the steppers ------------------------------ *)
\* the stepper call the latest step made, and whether it was enabled,
\* supported and past its debounce interval when it was made
AfterStepper(c) == obs.kind = "stepper" /\ obs.ctl = c
EvDue ==
    /\ AE_EV_ADAPT_ENABLE /\ SupportsEv(camera)
    /\ clock - obs.before.ev_last_update >= AE_EV_UPDATE_INTERVAL_SEC
GainDue ==
    /\ GAIN_ADAPT_ENABLE /\ SupportsGain(camera)
    /\ clock - obs.before.gain_last_update >= GAIN_UPDATE_INTERVAL_SEC
ShutterDue ==
    /\ cfg.shutter_enable /\ HasSetShutter(camera) /\ SupportsShutter(camera)
    /\ clock - obs.before.shutter_last_update >= SHUTTER_UPDATE_INTERVAL_SEC

\* C11: for every configuration with min <= max, the bias, the gain and the
\* shutter stay within their configured [min, max] after any sequence of
\* adjustment calls.
C11_ControlsWithinRange ==
    (AE_EV_MIN <= AE_EV_MAX /\ GAIN_MIN <= GAIN_MAX /\ SHUTTER_MIN_US <= SHUTTER_MAX_US)
        => /\ AE_EV_MIN <= self.ev_bias /\ self.ev_bias <= AE_EV_MAX
           /\ GAIN_MIN <= self.gain_value /\ self.gain_value <= GAIN_MAX
           /\ SHUTTER_MIN_US <= self.shutter_us /\ self.shutter_us <= SHUTTER_MAX_US

\* C12: two calls of a stepper less than its update interval apart apply at
\* most one change: a call that applies a change comes at least the interval
\* after the previous applied change of the same control.
C12_Debounce ==
    LET IntervalOf(c) ==
            CASE c = "ev" -> AE_EV_UPDATE_INTERVAL_SEC
              [] c = "gain" -> GAIN_UPDATE_INTERVAL_SEC
              [] c = "shutter" -> SHUTTER_UPDATE_INTERVAL_SEC
    IN
    \A c \in {"ev", "gain", "shutter"} :
        (obs.kind = "stepper" /\ c \in obs.applied /\ obs.prev_applied_at[c] # 0)
            => clock - obs.prev_applied_at[c] >= IntervalOf(c)
C12_Witness ==
    /\ AfterStepper("ev") /\ obs.accepted /\ obs.exp_in = "under"
    /\ obs.prev_applied_at.ev # 0
    /\ clock - obs.prev_applied_at.ev < AE_EV_UPDATE_INTERVAL_SEC
    /\ EvTarget(obs.before.ev_bias, "under") # obs.before.ev_bias
    /\ obs.applied = {} /\ self.ev_bias = obs.before.ev_bias

\* C13: a call with state Under of an enabled, supported, non-debounced
\* stepper whose driver call succeeds leaves the value at
\* min(max, value + step).
C13_UnderStepsUp ==
    /\ (AfterStepper("ev") /\ obs.exp_in = "under" /\ EvDue /\ obs.accepted)
           => self.ev_bias = Min(AE_EV_MAX, obs.before.ev_bias + AE_EV_STEP)
    /\ (AfterStepper("gain") /\ obs.exp_in = "under" /\ GainDue /\ obs.accepted)
           => self.gain_value = Min(GAIN_MAX, obs.before.gain_value + GAIN_STEP)
    /\ (AfterStepper("shutter") /\ obs.exp_in = "under" /\ ShutterDue /\ obs.accepted)
           => self.shutter_us = Min(SHUTTER_MAX_US, obs.before.shutter_us + SHUTTER_STEP_US)
C13_Witness ==
    /\ AfterStepper("ev") /\ obs.exp_in = "under" /\ EvDue /\ obs.accepted
    /\ "ev" \in obs.applied
    /\ obs.before.ev_bias + AE_EV_STEP > AE_EV_MAX
    /\ self.ev_bias = AE_EV_MAX

\* C14 as stated: a call with state Over of an enabled, supported,
\* non-debounced stepper leaves the value at max(min, value - step), for the
\* bias, the gain and the shutter alike.
C14_Original ==
    /\ (AfterStepper("ev") /\ obs.exp_in = "over" /\ EvDue /\ obs.accepted)
           => self.ev_bias = Max(AE_EV_MIN, obs.before.ev_bias - AE_EV_STEP)
    /\ (AfterStepper("gain") /\ obs.exp_in = "over" /\ GainDue /\ obs.accepted)
           => self.gain_value = Max(GAIN_MIN, obs.before.gain_value - GAIN_STEP)
    /\ (AfterStepper("shutter") /\ obs.exp_in = "over" /\ ShutterDue /\ obs.accepted)
           => self.shutter_us = Max(SHUTTER_MIN_US, obs.before.shutter_us - SHUTTER_STEP_US)
\* C14 amended: with state Over the bias and the gain move down by step,
\* clamped to min; the shutter moves down by return_step toward its base
\* value and never below it, exactly as with state Normal.
C14_OverStepsDown ==
    /\ (AfterStepper("ev") /\ obs.exp_in = "over" /\ EvDue /\ obs.accepted)
           => self.ev_bias = Max(AE_EV_MIN, obs.before.ev_bias - AE_EV_STEP)
    /\ (AfterStepper("gain") /\ obs.exp_in = "over" /\ GainDue /\ obs.accepted)
           => self.gain_value = Max(GAIN_MIN, obs.before.gain_value - GAIN_STEP)
    /\ (AfterStepper("shutter") /\ obs.exp_in = "over" /\ ShutterDue /\ obs.accepted)
           => self.shutter_us =
                  IF obs.before.shutter_us > SHUTTER_BASE_US
                  THEN Max(SHUTTER_BASE_US, obs.before.shutter_us - SHUTTER_RETURN_STEP_US)
                  ELSE obs.before.shutter_us
C14_Witness ==
    /\ AfterStepper("shutter") /\ obs.exp_in = "over" /\ ShutterDue /\ obs.accepted
    /\ "shutter" \in obs.applied
    /\ obs.before.shutter_us > SHUTTER_BASE_US
    /\ self.shutter_us = obs.before.shutter_us - SHUTTER_RETURN_STEP_US

\* C15: a call with state Normal moves the value toward its baseline (0 for
\* the bias, 1.0 for the gain, SHUTTER_BASE_US for the shutter) by at most
\* return_step: the distance to the baseline does not grow and the value
\* does not cross the baseline.
Returned(old, new, base, return_step) ==
    /\ Abs(new - base) <= Abs(old - base)
    /\ Abs(new - old) <= return_step
    /\ (old >= base => new >= base)
    /\ (old <= base => new <= base)
C15_NormalReturns ==
    (obs.kind = "stepper" /\ obs.exp_in = "normal") =>
        /\ Returned(obs.before.ev_bias, self.ev_bias, 0, AE_EV_RETURN_STEP)
        /\ Returned(obs.before.gain_value, self.gain_value, GAIN_BASE, GAIN_RETURN_STEP)
        /\ Returned(obs.before.shutter_us, self.shutter_us, SHUTTER_BASE_US,
                    SHUTTER_RETURN_STEP_US)
C15_Witness ==
    /\ AfterStepper("gain") /\ obs.exp_in = "normal" /\ "gain" \in obs.applied
    /\ obs.before.gain_value > GAIN_BASE
    /\ self.gain_value = obs.before.gain_value - GAIN_RETURN_STEP

\* C16: a stepper call whose driver call fails, or whose new value equals the
\* current one, leaves the value, its timestamp and the pause window as they
\* were; a value changes only with a successful driver call, and then the
\* timestamp is the time of the call.
C16_ChangeOnlyOnSuccess ==
    /\ AfterStepper("ev") =>
           /\ (~obs.accepted \/ self.ev_bias = obs.before.ev_bias) =>
                  /\ self.ev_bias = obs.before.ev_bias
                  /\ self.ev_last_update = obs.before.ev_last_update
                  /\ self.adjust_pause_until = obs.before.adjust_pause_until
           /\ self.ev_bias # obs.before.ev_bias =>
                  (obs.accepted /\ self.ev_last_update = clock)
    /\ AfterStepper("gain") =>
           /\ (~obs.accepted \/ self.gain_value = obs.before.gain_value) =>
                  /\ self.gain_value = obs.before.gain_value
                  /\ self.gain_last_update = obs.before.gain_last_update
                  /\ self.adjust_pause_until = obs.before.adjust_pause_until
           /\ self.gain_value # obs.before.gain_value =>
                  (obs.accepted /\ self.gain_last_update = clock)
    /\ AfterStepper("shutter") =>
           /\ (~obs.accepted \/ self.shutter_us = obs.before.shutter_us) =>
                  /\ self.shutter_us = obs.before.shutter_us
                  /\ self.shutter_last_update = obs.before.shutter_last_update
                  /\ self.adjust_pause_until = obs.before.adjust_pause_until
           /\ self.shutter_us # obs.before.shutter_us =>
                  (obs.accepted /\ self.shutter_last_update = clock)
C16_Witness ==
    /\ AfterStepper("gain") /\ GainDue /\ ~obs.accepted
    /\ GainTarget(obs.before.gain_value, obs.exp_in) # obs.before.gain_value
    /\ self = obs.before

\* C17: a shutter call that raises the shutter sets the manual flag (and the
\* driver's auto exposure is off); a non-debounced call with state Normal or
\* Over that leaves the shutter within one return_step of its base value
\* re-enables auto exposure on the driver and, the driver accepting, clears
\* the flag.
C17_ManualOverride ==
    AfterStepper("shutter") =>
        /\ self.shutter_us > obs.before.shutter_us =>
               (self.manual_exposure /\ ~camera.ae)
        /\ (obs.exp_in \in {"normal", "over"} /\ ShutterDue /\ obs.accepted_ae
            /\ Abs(self.shutter_us - SHUTTER_BASE_US) <= SHUTTER_RETURN_STEP_US) =>
               (camera.ae /\ ~self.manual_exposure)
C17_Witness ==
    /\ AfterStepper("shutter") /\ obs.exp_in = "normal"
    /\ obs.before.manual_exposure /\ obs.before.shutter_us > SHUTTER_BASE_US
    /\ self.shutter_us < obs.before.shutter_us
    /\ camera.ae /\ ~self.manual_exposure

(* ------------------------- the pause windows --------------------------- *)
\* C18: a tick at least the adjustment period after the previous scheduled
\* window (and no other tick) opens a scheduled window: the pause lasts
\* pause_duration from that tick, the detector's baseline is cleared and a
\* reseed is pending; two scheduled windows are at least a period apart.
ScheduledDue == obs.now2 - obs.before.adjust_last_ts >= MOTION_ADJUST_PERIOD_SEC
C18_ScheduledWindow ==
    AfterUpdate =>
        /\ ScheduledDue <=> obs.window = "scheduled"
        /\ obs.window = "scheduled" =>
               /\ self.adjust_last_ts = obs.now2
               /\ obs.pause_until_dec = obs.now2 + cfg.pause
               /\ self.seed_at_resume
               /\ detector.prev = None

\* C19: on a tick with no window open and no scheduled window opening, the
\* failsafe opens a window, clears the baseline and sets the pending reseed
\* exactly when the exposure state is Under or Over and the debounce interval
\* of at least one stepper has elapsed; it never fires while a window is open.
C19_Failsafe ==
    AfterUpdate =>
        /\ (~ScheduledDue /\ ~(obs.now2 < obs.before.adjust_pause_until)) =>
               (obs.window = "failsafe"
                    <=> (state.exposure_state \in {"under", "over"}
                         /\ (\/ Need(obs.before.ev_last_update,
                                     AE_EV_UPDATE_INTERVAL_SEC,
                                     SupportsEv(camera), obs.now2)
                             \/ Need(obs.before.gain_last_update,
                                     GAIN_UPDATE_INTERVAL_SEC,
                                     SupportsGain(camera), obs.now2)
                             \/ Need(obs.before.shutter_last_update,
                                     SHUTTER_UPDATE_INTERVAL_SEC,
                                     SupportsShutter(camera), obs.now2))))
        /\ obs.window = "failsafe" =>
               /\ ~ScheduledDue /\ ~(obs.now2 < obs.before.adjust_pause_until)
               /\ obs.pause_until_dec = obs.now2 + cfg.pause
               /\ self.seed_at_resume
               /\ detector.prev = None

\* C20: with period 180 and pause 3, a frame that shows motion on a tick
\* whose detection step is due yields no detection while the window is open,
\* and is reported as a detection on the tick after the reseed, once the
\* window has closed.
C20_ExampleWindow ==
    LET Motion(prev_frame, frame) ==
            /\ prev_frame # None /\ frame # None
            /\ Detect(Prep(prev_frame), frame).regions # {}
    IN
    (/\ cfg.adaptive /\ cfg.period = 180 /\ cfg.pause = 3
     /\ ReceivedFrame /\ obs.armed_now
     /\ (LET idx == IF obs.kind = "frame" THEN frame_idx - 1 ELSE frame_idx
         IN  idx % Max(1, self.detect_stride_dyn) = 0)
     /\ Motion(obs.prev_frame, obs.frame))
        => /\ WindowOpen => obs.regions = {}
           /\ (obs.after_seed /\ ~WindowOpen) => obs.regions # {}

(* --------------------------- the detector ------------------------------ *)
\* C21: for every frame and every configuration, a detect() call that is
\* given the frame the detect() call just before it was given reports no
\* region.
C21_SameFrameTwice ==
    (obs.kind = "detect" /\ obs.preceded_by = "detect" /\ obs.prev_frame = obs.frame)
        => obs.regions = {}

(* --------------------------- enhancement ------------------------------- *)
\* C22: with a blend rate in [0, 1], every tick moves the enhancement alpha
\* and beta toward the tick's target: the distance to the target does not
\* grow and the value does not pass the target.
Approaches(old, new, tgt) ==
    /\ Abs(new - tgt) <= Abs(old - tgt)
    /\ (old <= tgt => new <= tgt)
    /\ (old >= tgt => new >= tgt)
C22_BlendApproaches ==
    (AfterUpdate /\ 0 <= ENHANCE_BLEND_NUM /\ ENHANCE_BLEND_NUM <= ENHANCE_BLEND_DEN) =>
        /\ Approaches(obs.before.enh_alpha, self.enh_alpha, self.enh_tgt_alpha)
        /\ Approaches(obs.before.enh_beta, self.enh_beta, self.enh_tgt_beta)
C22_Witness ==
    /\ AfterUpdate /\ ENHANCE_BLEND_NUM = 3
    /\ self.enh_tgt_alpha = obs.before.enh_tgt_alpha
    /\ self.enh_tgt_beta = obs.before.enh_tgt_beta
    /\ obs.before.enh_alpha # EnhScale
    /\ Abs(self.enh_alpha - self.enh_tgt_alpha)
           < Abs(obs.before.enh_alpha - self.enh_tgt_alpha)
    /\ Abs(self.enh_beta - self.enh_tgt_beta)
           < Abs(obs.before.enh_beta - self.enh_tgt_beta)

\* C23: once an enabled Under or Over enhancement has set a hold deadline, a
\* tick whose state is Normal keeps the previous, non-identity target while
\* the time is before the deadline, and takes the identity target (1, 0) at
\* or after the deadline.
IdentityTarget(s) == s.enh_tgt_alpha = EnhScale /\ s.enh_tgt_beta = 0
C23_EnhancementHold ==
    (AfterUpdate /\ state.exposure_state = "normal" /\ obs.before.enh_hold_until # 0) =>
        IF obs.now2 < obs.before.enh_hold_until
        THEN /\ self.enh_tgt_alpha = obs.before.enh_tgt_alpha
             /\ self.enh_tgt_beta = obs.before.enh_tgt_beta
             /\ ~IdentityTarget(self)
        ELSE IdentityTarget(self)
C23_Witness ==
    /\ AfterUpdate /\ state.exposure_state = "normal"
    /\ obs.prev_exposure_state = "normal"
    /\ obs.before.enh_hold_until # 0
    /\ obs.now2 >= obs.before.enh_hold_until
    /\ ~IdentityTarget(obs.before) /\ IdentityTarget(self)

(* --------------------------- schedule gate ----------------------------- *)
ExposureLogicRan ==
    IF ~cfg.adaptive THEN state.exposure_state = "off"
    ELSE LET e == AdaptStride(Estimate(
                      [s |-> obs.before,
                       st |-> [exposure_state |-> obs.prev_exposure_state,
                               exposure_mean |-> 0]],
                      obs.frame))
             h == EnhanceBlend(obs.before, e.st.exposure_state, obs.now2)
         IN  /\ self.exp_mean_ema = e.s.exp_mean_ema
             /\ self.exp_low_clip_ema = e.s.exp_low_clip_ema
             /\ self.exp_high_clip_ema = e.s.exp_high_clip_ema
             /\ state.exposure_state = e.st.exposure_state
             /\ self.detect_stride_dyn = e.s.detect_stride_dyn
             /\ self.enh_alpha = h.enh_alpha /\ self.enh_beta = h.enh_beta
             /\ self.enh_tgt_alpha = h.enh_tgt_alpha
             /\ self.enh_tgt_beta = h.enh_tgt_beta
             /\ self.enh_hold_until = h.enh_hold_until
             /\ (obs.window = "scheduled") <=>
                    (obs.now2 - obs.before.adjust_last_ts >= MOTION_ADJUST_PERIOD_SEC)
             /\ obs.ran = (obs.window # "none")
\* C24: in every tick where the schedule is not armed, detect() is not
\* invoked and nothing is detected or saved, while the exposure metrics, the
\* classification, the enhancement blend and the camera-control logic run.
C24_ScheduleGate ==
    (obs.kind = "frame" /\ ~obs.armed_now) =>
        /\ ~obs.detect_called /\ obs.regions = {} /\ ~obs.saved
        /\ ~state.detecting
        /\ ExposureLogicRan
C24_Witness ==
    /\ obs.kind = "frame" /\ ~obs.armed_now
    /\ obs.step /\ ~obs.paused /\ ~obs.seed_called
    /\ ~obs.detect_called /\ detector.prev = None

(* ------------------------------- saving -------------------------------- *)
\* C25: a frame is saved only in a tick where the schedule is armed and
\* detect() returned a region, and a save (annotated or raw) comes at least
\* SAVE_INTERVAL_SEC after the save before it, for every combination of the
\* save settings.
C25_SavesSpaced ==
    /\ (obs.kind = "frame" /\ obs.saved) => (obs.armed_now /\ obs.regions # {})
    /\ (obs.kind = "save" /\ obs.saved /\ obs.prev_save_at # 0)
           => clock - obs.prev_save_at >= SAVE_INTERVAL_SEC

(* -------------------------- rolling baseline --------------------------- *)
\* C30: after every detect() call that is executed, with or without a
\* baseline and whether or not it reports a region, the detector's baseline
\* is the preprocessed form of the frame given to that call.
C30_RollingBaseline ==
    (obs.kind = "detect" /\ obs.detect_called) => detector.prev = Prep(obs.frame)
C30_Witness ==
    /\ obs.kind = "detect" /\ obs.detect_called
    /\ obs.compared_to # None /\ obs.regions # {}
    /\ detector.prev = Prep(obs.frame) /\ detector.prev # obs.compared_to

(* ------------------------ the published state -------------------------- *)
\* C26: what a reader of get_status() has read, once it has read all the
\* fields, is the ServiceState of one completed tick (or the one of
\* construction), never a mix of two ticks or of a half-finished tick.
C26_SnapshotAtomic ==
    obs.rd.status = "done" => obs.rd.snap \in obs.rd.completed

\* C27: the capture thread is never made to wait for a reader: it never
\* stands at the frame lock of line 221 while a reader holds the lock.
C27_WriterNeverWaits ==
    ~(pc = "publish" /\ obs.rd.frame_lock = "reader")

(* ------------------------ start-up and shutdown ------------------------ *)
\* C28: once stop() has set the flag the worker begins no further iteration
\* body and, being scheduled, leaves the loop; stop() goes on to release the
\* camera whether or not the worker has ended within the join timeout, and
\* a driver error inside the release does not come out of stop().
C28_CooperativeShutdown ==
    /\ [][self.stop => /\ frame_idx' = frame_idx
                       /\ started' = started
                       /\ state' = state
                       /\ detector' = detector
                       /\ clock' = clock
                       /\ ~(pc = "run" /\ pc' = "crashed")]_vars
    /\ [](self.stop => <>(pc # "run"))
    /\ [](self.stop => <>camera.stop_called)
    /\ [](camera.stop_error => camera.stop_called)
C28_Witness ==
    /\ pc = "exited"
    /\ started
    /\ state.total_frames > 0
    /\ camera.stop_called
    /\ camera.stop_error

\* C29: a failed camera.start() leaves the worker in its loop, not started,
\* START_RETRY_SEC later than the attempt; camera.read() is only called
\* after a start succeeded; start() returns with the camera not started.
C29_StartRetry ==
    /\ obs.kind = "start_failed" =>
            /\ pc = "run"
            /\ ~started
            /\ clock - obs.tried_at = START_RETRY_SEC
    /\ (obs.kind \in {"no_frame", "frame", "idle_check_raised"}) => started
    /\ obs.kind = "service_started" => (pc = "run" /\ ~started)
C29_Witness ==
    /\ obs.kind = "start_failed"
    /\ pc = "run"
    /\ ~started
    /\ ~self.stop
    /\ clock >= EpochStart + START_RETRY_SEC + START_RETRY_SEC

(* ------------------ the detector's aggregate threshold ----------------- *)
\* C31: a detect() call that finds a baseline returns no region exactly when
\* the number of changed pixels, after thresholding and dilation, is below
\* MOTION_MIN_PIXELS; otherwise it returns at least one region.
C31_AggregateThreshold ==
    (obs.kind = "detect" /\ obs.compared_to # None)
        => (obs.regions = {}
                <=> ChangedPixels(obs.compared_to, Prep(obs.frame)) < MOTION_MIN_PIXELS)
C31_Witness ==
    /\ obs.kind = "detect" /\ obs.compared_to # None
    /\ MOTION_MIN_PIXELS > 0
    /\ ChangedPixels(obs.compared_to, Prep(obs.frame)) >= MOTION_MIN_PIXELS
    /\ obs.regions = {[x |-> 0, w |-> Len1(obs.frame)]}

(* ------------------------- a read without a frame ---------------------- *)
\* C32: an iteration whose camera.read() returns no frame changes neither
\* the frame counter, the service's attributes (exposure averages,
\* enhancement, control values and timestamps, pause window, reseed flag,
\* latest frame), the published state, the camera controls nor the detector
\* baseline, and the worker stays in its loop.
C32_NoFrameNoOp ==
    [][obs'.kind = "no_frame" => /\ frame_idx' = frame_idx
                                /\ self' = self
                                /\ state' = state
                                /\ camera' = camera
                                /\ detector' = detector
                                /\ pc' = pc /\ pc = "run"]_vars
C32_Witness ==
    /\ obs.kind = "no_frame"
    /\ pc = "run"
    /\ self.last_frame_ts # 0
    /\ state.total_frames = 1
    /\ frame_idx = 1
    /\ state.exposure_state \in {"under", "over"}

(* ----------------------- order of the stages of a tick ----------------- *)
\* C33 as stated: the gated detection step of a tick completes before the
\* control adapter of that tick runs, so the detection step decides on the
\* pause window as it stood before the tick.
C33_Original ==
    (obs.kind = "frame" /\ obs.step)
        => (obs.paused <=> clock < obs.before.adjust_pause_until)
\* C33: the stages of a tick run in the order estimator, classifier,
\* blender, control adapter, publish, gated detector: the detection step
\* decides on the pause window as the control adapter of the same tick left
\* it, is given the frame enhanced with the blend of this tick, and no
\* control of this tick is applied later than the detection step.
C33_AdapterBeforeDetector ==
    (obs.kind = "frame" /\ obs.step)
        => /\ obs.paused <=> clock < self.adjust_pause_until
           /\ obs.proc = Proc(obs.frame, self)
           /\ "ev" \in obs.applied => self.ev_last_update <= clock
           /\ "gain" \in obs.applied => self.gain_last_update <= clock
           /\ "shutter" \in obs.applied => self.shutter_last_update <= clock
C33_Witness ==
    /\ obs.kind = "frame" /\ obs.step /\ obs.armed_now
    /\ obs.before.adjust_pause_until = 0
    /\ obs.applied # {}
    /\ obs.paused
    /\ ~obs.detect_called

(* ------------------------------- pacing -------------------------------- *)
\* C34: with t0 = 0 the time the loop starts and I the capture interval, the
\* k-th tick never starts before (k-1)*I, and of any three consecutive ticks
\* the last starts at least I after the first: ticks missed while the loop
\* was behind are not run back-to-back.
C34_PacingNoBurst ==
    LET starts == obs.pace.starts
        interval == PaceScale \div Max(1, CAPTURE_FPS)
    IN  /\ \A k \in 1..Len(starts) : starts[k] >= (k - 1) * interval
        /\ \A k \in 1..(Len(starts) - 2) : starts[k + 2] - starts[k] >= interval
C34_Witness ==
    LET starts == obs.pace.starts
        interval == PaceScale \div Max(1, CAPTURE_FPS)
    IN  /\ Len(starts) = 4
        /\ starts[2] >= starts[1] + 3 * interval
        /\ starts[3] = starts[2] + interval
        /\ starts[4] = starts[3] + interval

(* ---------------------------- idle-gap reseed -------------------------- *)
\* C35: a frame received after a gap since the previous received frame
\* leaves the worker in its loop with the baseline cleared and the reseed
\* pending.
C35_IdleGapReseed ==
    (ReceivedFrame /\ obs.before.last_frame_ts # 0
        /\ clock - obs.before.last_frame_ts > 0)
        => /\ pc = "run"
           /\ detector.prev = None
           /\ self.seed_at_resume

\* C38: whenever the detection step of a tick finds the pause window open, the
\* reseed-pending flag is set; and detect() is never called while a pause
\* window opened or extended since the last seed step is still owed one
C38_PauseImpliesReseed ==
    /\ (obs.kind = "frame" /\ obs.step /\ obs.paused) => self.seed_at_resume
    /\ (obs.kind = "frame" /\ obs.detect_called) => ~obs.owed
\* a failsafe window opened after an earlier seed step, its steppers applied a
\* control, and the detection step found it open with the flag set
C38_Witness ==
    /\ obs.kind = "frame" /\ obs.step /\ obs.paused
    /\ obs.window = "failsafe" /\ obs.applied # {}
    /\ ~obs.before.seed_at_resume /\ self.seed_at_resume

C40_AlertCooldown ==
    /\ state.detecting => state.last_detection_ts # 0
    /\ (state.last_detection_ts # 0 /\ ~state.detecting)
           => clock - state.last_detection_ts > ALERT_COOLDOWN_SEC
    /\ (obs.kind = "frame" /\ obs.step /\ obs.regions = {}
           /\ clock - state.last_detection_ts > ALERT_COOLDOWN_SEC)
           => /\ ~state.detecting
              /\ state.person_count = 0 /\ state.face_count = 0
              /\ state.last_kinds = {}
\* a disarmed tick, the first one later than the cooldown after a detection,
\* cleared the flag
C40_Witness ==
    /\ obs.kind = "frame" /\ obs.step /\ ~obs.armed_now
    /\ state.last_detection_ts # 0 /\ ~state.detecting
    /\ clock - state.last_detection_ts = ALERT_COOLDOWN_SEC + 1
    /\ obs.calls = 3

\* C37: once stop() has returned (its last statement, camera.stop(), is done),
\* the worker performs no further camera.start() or camera.read()
C37_NoCameraUseAfterStop ==
    camera.stop_called
        => obs.kind \notin {"start_failed", "no_frame", "frame", "idle_check_raised"}

\* C36: detect() is invoked again and again, unless stop is requested, a tick
\* finds the schedule inactive, or the worker is still in its loop when the
\* modelled time ends
C36_DetectionLive ==
    \/ <>self.stop
    \/ <>(obs.kind \in {"frame", "idle_check_raised"} /\ ~obs.armed_now)
    \/ <>[](pc \in {"new", "run"})
    \/ []<>(obs.kind = "frame" /\ obs.detect_called)
====
